---------------------------- MODULE Spec2Model ----------------------------
(***************************************************************************)
(* Model of the OpenClaw docs-chat API.                                    *)
(*                                                                         *)
(*   Spec        one chat request through POST of app/api/chat/route.ts    *)
(*   SpecRerank  Reranker.rerank of rag/reranker.ts as a pure operation    *)
(*   SpecIndex   re-index runs (indexDocs of rag/indexer.ts) over the      *)
(*               vector store and the stored term index                    *)
(*   SpecWebhook POST /api/webhook of app/api/webhook/route.ts and of      *)
(*               dev-server.ts                                             *)
(*   SpecFusion  reciprocalRankFusion and weightedScoreFusion of           *)
(*               rag/fusion.ts as pure operations                          *)
(*   SpecBM25    buildTermIndex, BM25Searcher.search and searchPhrase, and *)
(*               the stored form of the term index, of rag/ratelimit.ts    *)
(*   SpecClassifier classifyQuery of rag/classifier.ts                     *)
(*   SpecChunker chunkContent of rag/indexer.ts                            *)
(*   SpecTrigger concurrent re-index triggers of one server process;       *)
(*               SpecTriggerFair adds that a started run settles           *)
(*                                                                         *)
(* Scores are rationals [n, d] (d > 0), compared by cross-multiplication.  *)
(***************************************************************************)
EXTENDS Integers, Sequences, FiniteSets, TLC

VARIABLES
    \* ---- one chat request (route.ts POST) ----
    enableHybrid,       \* ENABLE_HYBRID, fixed for the process
    req,                \* the request body as sent by the client
    pc,                 \* position of the handler
    userStrategy,       \* parsed `retrieval` field ("auto" by default)
    classified,         \* [strategy]: classified.strategy after the override
    classifierStrategy, \* history: the strategy classifyQuery itself returned
    termIndex,          \* "unloaded" | "null" | "index"
    semanticResults,    \* list of [id, score]
    keywordResults,     \* list of [id, score]
    fusedResults,       \* list of FusedResult
    finalResults,       \* list of [id, score]
    isLowConfidence,
    context,            \* ids of the passages put in the prompt context
    systemPrompt,       \* "none" | "system" | "general"
    response,           \* [status, body]
    semanticFallback,   \* list of [id, score] retrieved inside the fusion block
    completion,         \* outcome of the chat-completion call ("none" before it)
    calls,              \* history: the calls the handler made, in order
    thrown,             \* history: the step whose exception reached the catch block
    rerankMode,         \* history: how the ranking of finalResults was made
    logWrite,           \* the query-log write: "none" | "disabled" | "pending" | "written" | "failed"
    \* ---- Reranker.rerank alone ----
    rrDocs, rrTopN, rrOutcome, rrResult, rrPc,
    \* ---- re-index runs ----
    vectorStore,        \* set of [batch, run, size]: the stored upsert batches
    storedTermIndex,    \* Some(run) that built the stored bm25:index, or Null
    run,                \* number of the current run
    runPages,           \* pages the current run fetched
    runChunks,          \* chunks the current run created
    ixPc,               \* position of indexDocs
    upserted,           \* batches of the current run written so far
    before,             \* history: [store, term] when the run started
    lastResult,         \* result returned by indexDocs
    \* ---- readers of the index, concurrent with the runs ----
    qPc,                \* position of a query: "idle" | "search" | "done"
    qTerm,              \* the stored term index the query loaded
    qRead,              \* the last read of the vector index: [op, store, count]
    \* ---- one webhook delivery (POST /api/webhook) ----
    whHandler,          \* "next" (app/api/webhook/route.ts) | "dev" (dev-server.ts)
    whSecret,           \* GITHUB_WEBHOOK_SECRET: Some(key) or Null
    whDevelopment,      \* isDevelopment of dev-server.ts
    whReq,              \* [rawBody, signature, event]
    whPc,               \* position of the handler
    whResponse,         \* status of the response, 0 before it
    isIndexing,         \* indexingStatus.isIndexing
    indexDocsCalls,     \* history: number of indexDocs() calls the delivery made
    \* ---- concurrent re-index triggers of one server process ----
    trServer,           \* "next" (app/api/webhook/route.ts) | "dev" (dev-server.ts)
    trReq,              \* per trigger: [endpoint, valid]
    trPc,               \* per trigger: position of its handler
    trResponse,         \* per trigger: [code, status], code 0 before the response
    statusLastResult,   \* indexingStatus.lastResult: Null or Some(result)
    lastIndexed,        \* indexingStatus.lastIndexed: Null or Some(time)
    completed,          \* history: the runs that ended, in order of their end
    \* ---- one call of a pure function ----
    fnArgs,             \* the arguments
    fnResult,           \* the value returned
    fnPc                \* "call" | "returned"

chatVars == <<enableHybrid, req, pc, userStrategy, classified, classifierStrategy,
              termIndex, semanticResults, keywordResults, fusedResults,
              finalResults, isLowConfidence, context, systemPrompt, response,
              semanticFallback, completion, calls, thrown, rerankMode, logWrite>>
rerankVars == <<rrDocs, rrTopN, rrOutcome, rrResult, rrPc>>
readerVars == <<qPc, qTerm, qRead>>
indexVars == <<vectorStore, storedTermIndex, run, runPages, runChunks, ixPc, upserted,
               before, lastResult, readerVars>>
triggerVars == <<trServer, trReq, trPc, trResponse, statusLastResult, lastIndexed,
                 completed>>
webhookVars == <<whHandler, whSecret, whDevelopment, whReq, whPc, whResponse,
                 isIndexing, indexDocsCalls, triggerVars>>
callVars == <<fnArgs, fnResult, fnPc>>
vars == <<chatVars, rerankVars, indexVars, webhookVars, callVars>>

-----------------------------------------------------------------------------
(* Bounds of the model *)

\* longest list a retriever (semantic or BM25) returns
MaxResults == 2
\* longest document list and largest topN given to Reranker.rerank on its own
MaxDocs == 3
MaxTopN == 4
\* number of re-index runs explored, and of pages a run fetches
MaxRuns == 2
MaxPages == 2

\* the chunk universe of the published index
ChunkIds == {"c1", "c2", "c3"}

-----------------------------------------------------------------------------
(* Rational scores *)

Rat(n, d) == [n |-> n, d |-> d]
RatLess(a, b) == a.n * b.d < b.n * a.d
RatEq(a, b) == a.n * b.d = b.n * a.d
RatAdd(a, b) == [n |-> a.n * b.d + b.n * a.d, d |-> a.d * b.d]
RatDiv(a, k) == [n |-> a.n, d |-> a.d * k]

Min(a, b) == IF a < b THEN a ELSE b

\* injective sequences over S of length at most n
InjSeqs(S, n) ==
    UNION { { s \in [1..m -> S] : \A i, j \in 1..m : i # j => s[i] # s[j] }
            : m \in 0..n }

Range(s) == { s[i] : i \in 1..Len(s) }
Ids(list) == [i \in 1..Len(list) |-> list[i].id]


Null == <<>>
Some(x) == <<x>>

IndexOf(seq, x) == CHOOSE i \in 1..Len(seq) : seq[i] = x

-----------------------------------------------------------------------------
(* External collaborators: what they can return *)

\* similarity / relevance scores a collaborator reports for its best hit
SimScores == { Rat(2, 10), Rat(3, 10), Rat(8, 10) }

\* Retriever.retrieve: distinct chunks, scores strictly decreasing with rank
RetrievalOutcomes ==
    { [i \in 1..Len(ids) |-> [id |-> ids[i], score |-> RatDiv(s, i)]]
      : ids \in InjSeqs(ChunkIds, MaxResults), s \in SimScores }

\* BM25Searcher.search: distinct chunks, positive scores decreasing with rank
BM25Outcomes ==
    { [i \in 1..Len(ids) |-> [id |-> ids[i], score |-> Rat(MaxResults + 2 - i, 1)]]
      : ids \in InjSeqs(ChunkIds, MaxResults) }

\* the order a rerank response puts n documents in: document t first, the
\* others after it in their input order (0-based indices)
RECURSIVE Others(_, _, _)
Others(n, t, i) ==
    IF i >= n THEN <<>>
    ELSE (IF i = t THEN <<>> ELSE <<i>>) \o Others(n, t, i + 1)

\* the response of the rerank service for n documents and top_n = eff:
\* a transport failure, a non-success status, an unusable body, or a
\* result list (an index equal to n is out of range)
RerankResponses(n, eff) ==
    { [kind |-> k, results |-> <<>>] : k \in {"network", "status", "body"} }
    \cup
    { [kind |-> "ok",
       results |-> [p \in 1..Min(eff, Len(<<t>> \o Others(n, t, 0))) |->
                      [index |-> (<<t>> \o Others(n, t, 0))[p],
                       relevance_score |-> RatDiv(s, p)]]]
      : t \in 0..n, s \in SimScores }

-----------------------------------------------------------------------------
(* rag/reranker.ts *)

\* the catch block of Reranker.rerank
RerankFallbackNoDecrease(documents, effectiveTopN) ==
    [i \in 1..effectiveTopN |->
        [id |-> documents[i].id,
         relevanceScore |-> Rat(1, 1),
         originalRank |-> i - 1]]

RerankFallback(documents, effectiveTopN) ==
    [i \in 1..effectiveTopN |->
        [id |-> documents[i].id,
         relevanceScore |-> Rat(Len(documents) - (i - 1), Len(documents)),
         originalRank |-> i - 1]]

\* does the try block of Reranker.rerank complete: the call succeeded and
\* every returned index names a document
RerankUsable(documents, resp) ==
    /\ resp.kind = "ok"
    /\ \A p \in 1..Len(resp.results) : resp.results[p].index < Len(documents)

\* Reranker.rerank(query, documents, topN) given the service's response
RerankerRerankEmptyOnFailure(documents, topN, resp) ==
    IF Len(documents) = 0 \/ ~RerankUsable(documents, resp) THEN <<>>
    ELSE [p \in 1..Len(resp.results) |->
            [id |-> documents[resp.results[p].index + 1].id,
             relevanceScore |-> resp.results[p].relevance_score,
             originalRank |-> resp.results[p].index]]

RerankerRerank(documents, topN, resp) ==
    IF Len(documents) = 0 THEN <<>>
    ELSE LET effectiveTopN == Min(topN, Len(documents))
         IN IF RerankUsable(documents, resp)
            THEN [p \in 1..Len(resp.results) |->
                    [id |-> documents[resp.results[p].index + 1].id,
                     relevanceScore |-> resp.results[p].relevance_score,
                     originalRank |-> resp.results[p].index]]
            ELSE RerankFallback(documents, effectiveTopN)

\* PassthroughReranker.rerank(query, documents, topN)
PassthroughRerank(documents, topN) ==
    [i \in 1..Min(topN, Len(documents)) |->
        [id |-> documents[i].id,
         relevanceScore |-> Rat(Len(documents) - (i - 1), Len(documents)),
         originalRank |-> i - 1]]

-----------------------------------------------------------------------------
(* rag/fusion.ts *)

DEFAULT_RRF_K == 60

\* results.sort((a, b) => b.fusedScore - a.fusedScore): stable, descending
RECURSIVE SortTiesReversed(_)
SortTiesReversed(list) ==
    IF Len(list) = 0 THEN <<>>
    ELSE LET sorted == SortTiesReversed(SubSeq(list, 1, Len(list) - 1))
             e == list[Len(list)]
             keep == Cardinality({ i \in 1..Len(sorted) :
                                    RatLess(e.fusedScore, sorted[i].fusedScore) })
         IN SubSeq(sorted, 1, keep) \o <<e>> \o SubSeq(sorted, keep + 1, Len(sorted))

RECURSIVE SortByFusedScore(_)
SortByFusedScore(list) ==
    IF Len(list) = 0 THEN <<>>
    ELSE LET sorted == SortByFusedScore(SubSeq(list, 1, Len(list) - 1))
             e == list[Len(list)]
             keep == Cardinality({ i \in 1..Len(sorted) :
                                    ~RatLess(sorted[i].fusedScore, e.fusedScore) })
         IN SubSeq(sorted, 1, keep) \o <<e>> \o SubSeq(sorted, keep + 1, Len(sorted))

\* reciprocalRankFusion(semanticResults, keywordResults, chunks, k);
\* chunks is the set of ids the chunk map has data for
reciprocalRankFusionByScore(sem, kw, chunks, k) ==
    LET semIds == Ids(sem)
        kwIds == Ids(kw)
        order == semIds \o SelectSeq(kwIds, LAMBDA id : id \notin Range(semIds))
        inSem(id) == id \in Range(semIds)
        inKw(id) == id \in Range(kwIds)
        entry(id) ==
            [id |-> id,
             semanticRank |-> IF inSem(id) THEN Some(IndexOf(semIds, id)) ELSE Null,
             semanticScore |-> IF inSem(id) THEN Some(sem[IndexOf(semIds, id)].score) ELSE Null,
             keywordRank |-> IF inKw(id) THEN Some(IndexOf(kwIds, id)) ELSE Null,
             keywordScore |-> IF inKw(id) THEN Some(kw[IndexOf(kwIds, id)].score) ELSE Null,
             fusedScore |-> IF inSem(id) THEN sem[IndexOf(semIds, id)].score
                            ELSE Rat(1, k + IndexOf(kwIds, id))]
        found == SelectSeq(order, LAMBDA id : inSem(id) \/ id \in chunks)
    IN SortByFusedScore([i \in 1..Len(found) |-> entry(found[i])])

reciprocalRankFusion(sem, kw, chunks, k) ==
    LET semIds == Ids(sem)
        kwIds == Ids(kw)
        \* insertion order of the fusedScores map
        order == semIds \o SelectSeq(kwIds, LAMBDA id : id \notin Range(semIds))
        inSem(id) == id \in Range(semIds)
        inKw(id) == id \in Range(kwIds)
        contribution(list, id) == Rat(1, k + IndexOf(list, id))
        rrf(id) ==
            IF inSem(id) /\ inKw(id)
            THEN RatAdd(contribution(semIds, id), contribution(kwIds, id))
            ELSE IF inSem(id) THEN contribution(semIds, id)
            ELSE contribution(kwIds, id)
        entry(id) ==
            [id |-> id,
             semanticRank |-> IF inSem(id) THEN Some(IndexOf(semIds, id)) ELSE Null,
             semanticScore |-> IF inSem(id) THEN Some(sem[IndexOf(semIds, id)].score) ELSE Null,
             keywordRank |-> IF inKw(id) THEN Some(IndexOf(kwIds, id)) ELSE Null,
             keywordScore |-> IF inKw(id) THEN Some(kw[IndexOf(kwIds, id)].score) ELSE Null,
             fusedScore |-> rrf(id)]
        \* a chunk found neither in the semantic results nor in the map is skipped
        found == SelectSeq(order, LAMBDA id : inSem(id) \/ id \in chunks)
    IN SortByFusedScore([i \in 1..Len(found) |-> entry(found[i])])


-----------------------------------------------------------------------------
(* app/api/chat/route.ts: the request *)

MAX_MESSAGE_LENGTH == 2000
LOW_CONFIDENCE_THRESHOLD == Rat(3, 10)
RERANK_CANDIDATES == 25
RERANK_TOP_N == 8

ALLOWED_STRATEGIES == {"auto", "hybrid", "semantic", "keyword"}
Strategies == {"hybrid", "semantic", "keyword"}

\* body.message: absent, not a string, or a string of `trimmed` characters
\* between `pad` characters of surrounding whitespace
Messages ==
    { [type |-> "absent", trimmed |-> 0, pad |-> 0],
      [type |-> "number", trimmed |-> 0, pad |-> 0],
      [type |-> "string", trimmed |-> 0, pad |-> 0],
      [type |-> "string", trimmed |-> 0, pad |-> 1],
      [type |-> "string", trimmed |-> MAX_MESSAGE_LENGTH, pad |-> 1],
      [type |-> "string", trimmed |-> MAX_MESSAGE_LENGTH + 1, pad |-> 0] }

\* the request bodies a client can send; json = FALSE is an unparseable body
Bodies ==
    { [json |-> FALSE, message |-> [type |-> "absent", trimmed |-> 0, pad |-> 0],
       retrieval |-> "absent", confidenceThreshold |-> Null] }
    \cup
    { [json |-> TRUE, message |-> m, retrieval |-> r, confidenceThreshold |-> t]
      : m \in Messages,
        r \in {"absent", "bogus"} \cup ALLOWED_STRATEGIES,
        t \in {Null, Some(Rat(9, 10))} }

NoResponse == [status |-> 0, body |-> "none"]

\* `!message || typeof message !== "string"`: an absent value, a non-string
\* and the empty string are all refused
MessageMissing(m) == m.type # "string" \/ m.trimmed + m.pad = 0
\* message.trim() is empty
MessageBlankUntrimmed(m) == m.trimmed + m.pad = 0
MessageBlank(m) == m.trimmed = 0
MessageTooLong(m) == m.trimmed > MAX_MESSAGE_LENGTH

\* the status and body of the validation failure of a body, Null if it is valid
ValidationError(body) ==
    IF ~body.json THEN Some([status |-> 400, body |-> "Invalid JSON"])
    ELSE IF MessageMissing(body.message)
         THEN Some([status |-> 400, body |-> "message required"])
    ELSE IF MessageBlank(body.message)
         THEN Some([status |-> 400, body |-> "message required"])
    ELSE IF MessageTooLong(body.message)
         THEN Some([status |-> 400, body |-> "Message too long"])
    ELSE Null

\* userStrategy after parsing body.retrieval
ParseStrategy(body) ==
    IF body.json /\ body.retrieval \in ALLOWED_STRATEGIES
    THEN body.retrieval ELSE "auto"

\* classified.strategy after `if (userStrategy !== "auto")`
ResolveStrategy(user, fromClassifier) ==
    IF user # "auto" THEN user ELSE fromClassifier

\* the catch block of POST
InternalError == [status |-> 500, body |-> "Internal Server Error"]

InitChat ==
    /\ enableHybrid \in BOOLEAN
    /\ req \in Bodies
    /\ pc = "rateLimit"
    /\ userStrategy = "auto"
    /\ classified = [strategy |-> "none"]
    /\ classifierStrategy = "none"
    /\ termIndex = "unloaded"
    /\ semanticResults = <<>>
    /\ keywordResults = <<>>
    /\ fusedResults = <<>>
    /\ finalResults = <<>>
    /\ isLowConfidence = FALSE
    /\ context = <<>>
    /\ systemPrompt = "none"
    /\ response = NoResponse
    /\ semanticFallback = <<>>
    /\ completion = "none"
    /\ calls = <<>>
    /\ thrown = "none"
    /\ rerankMode = "none"
    /\ logWrite = "none"

\* the chat handler is not running
ChatIdle ==
    /\ enableHybrid = FALSE
    /\ req = [json |-> FALSE, message |-> [type |-> "absent", trimmed |-> 0, pad |-> 0],
              retrieval |-> "absent", confidenceThreshold |-> Null]
    /\ pc = "idle"
    /\ userStrategy = "auto"
    /\ classified = [strategy |-> "none"]
    /\ classifierStrategy = "none"
    /\ termIndex = "unloaded"
    /\ semanticResults = <<>>
    /\ keywordResults = <<>>
    /\ fusedResults = <<>>
    /\ finalResults = <<>>
    /\ isLowConfidence = FALSE
    /\ context = <<>>
    /\ systemPrompt = "none"
    /\ response = NoResponse
    /\ semanticFallback = <<>>
    /\ completion = "none"
    /\ calls = <<>>
    /\ thrown = "none"
    /\ rerankMode = "none"
    /\ logWrite = "none"


-----------------------------------------------------------------------------
(* app/api/chat/route.ts: POST, one action per step of the handler *)

pipelineVars == <<termIndex, semanticResults, keywordResults, fusedResults,
                  finalResults, semanticFallback, rerankMode>>
gateVars == <<isLowConfidence, context, systemPrompt, completion>>

\* checkRateLimit(clientIp): not configured (null), allowed, refused, or the
\* limiter's store fails
CheckRateLimit ==
    /\ pc = "rateLimit"
    /\ \E result \in {"unconfigured", "allowed", "limited", "throws"} :
        /\ calls' = IF result = "unconfigured" THEN calls
                    ELSE Append(calls, "checkRateLimit")
        /\ response' = CASE result = "limited" ->
                              [status |-> 429, body |-> "Too many requests"]
                         [] result = "throws" -> InternalError
                         [] OTHER -> response
        /\ thrown' = IF result = "throws" THEN "checkRateLimit" ELSE thrown
        /\ pc' = IF result \in {"limited", "throws"} THEN "done" ELSE "validateEnv"
    /\ UNCHANGED <<enableHybrid, req, logWrite, userStrategy, classified, classifierStrategy,
                   pipelineVars, gateVars, rerankVars, indexVars, webhookVars, callVars>>

\* `if (!apiKey)`
ValidateEnvironment ==
    /\ pc = "validateEnv"
    /\ \E apiKey \in BOOLEAN :
        /\ response' = IF apiKey THEN response
                       ELSE [status |-> 500, body |-> "Server configuration error"]
        /\ pc' = IF apiKey THEN "parseBody" ELSE "done"
    /\ UNCHANGED <<thrown, enableHybrid, req, logWrite, userStrategy, classified, classifierStrategy,
                   calls, pipelineVars, gateVars, rerankVars, indexVars, webhookVars, callVars>>

\* request.json() and the checks of the message
ParseBody ==
    /\ pc = "parseBody"
    /\ userStrategy' = ParseStrategy(req)
    /\ IF ValidationError(req) # Null
       THEN /\ response' = ValidationError(req)[1]
            /\ pc' = "done"
       ELSE /\ response' = response
            /\ pc' = "classify"
    /\ UNCHANGED <<thrown, enableHybrid, req, logWrite, classified, classifierStrategy,
                   calls, pipelineVars, gateVars, rerankVars, indexVars, webhookVars, callVars>>

\* classifyQuery, the strategy override, and the construction of the RAG
\* components (new DocsStore() throws without its endpoint and token)
ClassifyQuery ==
    /\ pc = "classify"
    /\ \E s \in Strategies, storeConfigured \in BOOLEAN :
        /\ classifierStrategy' = s
        /\ classified' = [strategy |-> ResolveStrategy(userStrategy, s)]
        /\ calls' = Append(calls, "classifyQuery")
        /\ IF storeConfigured
           THEN /\ response' = response
                /\ pc' = IF enableHybrid THEN "loadTermIndex" ELSE "legacyRetrieve"
           ELSE /\ response' = InternalError
                /\ pc' = "done"
        /\ thrown' = IF storeConfigured THEN thrown ELSE "DocsStore"
    /\ UNCHANGED <<enableHybrid, req, logWrite, userStrategy,
                   pipelineVars, gateVars, rerankVars, indexVars, webhookVars, callVars>>

\* loadTermIndex(): null (store not configured or no index stored), an index,
\* or a failure of the store
LoadTermIndex ==
    /\ pc = "loadTermIndex"
    /\ \E out \in {"null", "index", "throws"} :
        /\ calls' = Append(calls, "loadTermIndex")
        /\ thrown' = IF out = "throws" THEN "loadTermIndex" ELSE thrown
        /\ IF out = "throws"
           THEN /\ termIndex' = termIndex
                /\ response' = InternalError
                /\ pc' = "done"
           ELSE /\ termIndex' = out
                /\ response' = response
                /\ pc' = "semanticSearch"
    /\ UNCHANGED <<enableHybrid, req, logWrite, userStrategy, classified, classifierStrategy,
                   semanticResults, keywordResults, fusedResults, finalResults,
                   semanticFallback, rerankMode, gateVars, rerankVars, indexVars, webhookVars, callVars>>

\* does the first retrieval block run the semantic retriever
RunsSemantic(strategy) == strategy # "keyword"

\* does the first retrieval block run BM25 keyword search
RunsKeyword(index, strategy) == index = "index" /\ strategy # "semantic"

\* `if (classified.strategy !== "keyword") semanticResults = await retriever.retrieve(...)`
SemanticSearch ==
    /\ pc = "semanticSearch"
    /\ IF RunsSemantic(classified.strategy)
       THEN \E ok \in BOOLEAN :
              /\ calls' = Append(calls, "retrieve")
              /\ thrown' = IF ok THEN thrown ELSE "retrieve"
              /\ IF ok
                 THEN /\ \E out \in RetrievalOutcomes : semanticResults' = out
                      /\ response' = response
                      /\ pc' = "keywordSearch"
                 ELSE /\ semanticResults' = semanticResults
                      /\ response' = InternalError
                      /\ pc' = "done"
       ELSE /\ UNCHANGED <<calls, thrown, semanticResults, response>>
            /\ pc' = "keywordSearch"
    /\ UNCHANGED <<enableHybrid, req, logWrite, userStrategy, classified, classifierStrategy,
                   termIndex, keywordResults, fusedResults, finalResults,
                   semanticFallback, rerankMode, gateVars, rerankVars, indexVars, webhookVars, callVars>>

\* `if (bm25Searcher && classified.strategy !== "semantic") keywordResults = bm25Searcher.search(...)`
KeywordSearch ==
    /\ pc = "keywordSearch"
    /\ IF RunsKeyword(termIndex, classified.strategy)
       THEN \E ok \in BOOLEAN :
              /\ calls' = Append(calls, "bm25.search")
              /\ thrown' = IF ok THEN thrown ELSE "bm25.search"
              /\ IF ok
                 THEN /\ \E out \in BM25Outcomes : keywordResults' = out
                      /\ response' = response
                      /\ pc' = "fuse"
                 ELSE /\ keywordResults' = keywordResults
                      /\ response' = InternalError
                      /\ pc' = "done"
       ELSE /\ UNCHANGED <<calls, thrown, keywordResults, response>>
            /\ pc' = "fuse"
    /\ UNCHANGED <<enableHybrid, req, logWrite, userStrategy, classified, classifierStrategy,
                   termIndex, semanticResults, fusedResults, finalResults,
                   semanticFallback, rerankMode, gateVars, rerankVars, indexVars, webhookVars, callVars>>


\* which arm of `// Fuse results based on strategy` is taken
FuseBranch(strategy, sem, kw) ==
    IF strategy = "hybrid" /\ Len(kw) > 0 /\ Len(sem) > 0 THEN "rrf"
    ELSE IF strategy = "keyword" /\ Len(kw) > 0
         THEN (IF Len(sem) > 0 THEN "keywordFiltered" ELSE "keywordFallback")
    ELSE "semanticOnly"

\* `// Semantic only or fallback`
SemanticOnlyFused(sem) ==
    [i \in 1..Len(sem) |->
        [id |-> sem[i].id,
         semanticRank |-> Some(i), semanticScore |-> Some(sem[i].score),
         keywordRank |-> Null, keywordScore |-> Null,
         fusedScore |-> sem[i].score]]

\* `// Use semantic results that match keyword IDs`
KeywordFilteredFused(sem, kw) ==
    LET matching == SelectSeq(sem, LAMBDA r : r.id \in Range(Ids(kw)))
    IN [i \in 1..Len(matching) |->
          [id |-> matching[i].id,
           semanticRank |-> Null, semanticScore |-> Null,
           keywordRank |-> Some(i),
           keywordScore |-> Some(kw[IndexOf(Ids(kw), matching[i].id)].score),
           fusedScore |-> kw[IndexOf(Ids(kw), matching[i].id)].score]]

\* the fusion arms that make no further call; an exception raised while
\* fusing (ok = FALSE) reaches the catch block of POST like any other
FuseResults ==
    /\ pc = "fuse"
    /\ FuseBranch(classified.strategy, semanticResults, keywordResults) # "keywordFallback"
    /\ \E ok \in BOOLEAN :
        IF ok
        THEN /\ fusedResults' =
                  CASE FuseBranch(classified.strategy, semanticResults, keywordResults) = "rrf" ->
                         reciprocalRankFusion(semanticResults, keywordResults,
                                              Range(Ids(semanticResults)), DEFAULT_RRF_K)
                    [] FuseBranch(classified.strategy, semanticResults, keywordResults) = "keywordFiltered" ->
                         KeywordFilteredFused(semanticResults, keywordResults)
                    [] OTHER -> SemanticOnlyFused(semanticResults)
             /\ response' = response
             /\ pc' = "rerank"
        ELSE /\ fusedResults' = fusedResults
             /\ response' = InternalError
             /\ pc' = "done"
    /\ thrown' = IF pc' = "done" THEN "fusion" ELSE thrown
    /\ UNCHANGED <<enableHybrid, req, logWrite, userStrategy, classified, classifierStrategy,
                   calls, termIndex, semanticResults, keywordResults, finalResults,
                   semanticFallback, rerankMode, gateVars, rerankVars, indexVars, webhookVars, callVars>>

\* the keyword arm without semantic results: `// No semantic results, need to
\* do a semantic search to get chunk data`, then reciprocalRankFusion
FuseWithSemanticFallback ==
    /\ pc = "fuse"
    /\ FuseBranch(classified.strategy, semanticResults, keywordResults) = "keywordFallback"
    /\ calls' = Append(calls, "retrieve")
    /\ \E ok \in BOOLEAN :
        IF ok
        THEN /\ \E out \in RetrievalOutcomes :
                  /\ semanticFallback' = out
                  /\ fusedResults' =
                        reciprocalRankFusion(out, keywordResults,
                            Range(Ids(semanticResults)) \cup Range(Ids(out)),
                            DEFAULT_RRF_K)
             /\ response' = response
             /\ pc' = "rerank"
        ELSE /\ UNCHANGED <<semanticFallback, fusedResults>>
             /\ response' = InternalError
             /\ pc' = "done"
    /\ thrown' = IF pc' = "done" THEN "retrieve" ELSE thrown
    /\ UNCHANGED <<enableHybrid, req, logWrite, userStrategy, classified, classifierStrategy,
                   termIndex, semanticResults, keywordResults, finalResults,
                   rerankMode, gateVars, rerankVars, indexVars, webhookVars, callVars>>

\* fusedResults.slice(0, 25) as rerank documents
DocsToRerank(fused) ==
    [i \in 1..Min(RERANK_CANDIDATES, Len(fused)) |-> [id |-> fused[i].id]]

\* `finalResults = reranked.map(...)`
FinalOf(reranked) ==
    [i \in 1..Len(reranked) |-> [id |-> reranked[i].id, score |-> reranked[i].relevanceScore]]

\* getReranker().rerank(classified.original, docsToRerank, 8): the Cohere
\* reranker when its key is set, the passthrough reranker otherwise
RerankResults ==
    /\ pc = "rerank"
    /\ LET docs == DocsToRerank(fusedResults)
           n == Len(docs)
       IN \E cohere \in BOOLEAN :
            IF cohere /\ n > 0
            THEN \E resp \in RerankResponses(n, Min(RERANK_TOP_N, n)) :
                   /\ finalResults' = FinalOf(RerankerRerank(docs, RERANK_TOP_N, resp))
                   /\ rerankMode' = IF RerankUsable(docs, resp) THEN "cohere"
                                    ELSE "fallback"
            ELSE /\ finalResults' =
                      IF cohere THEN <<>>
                      ELSE FinalOf(PassthroughRerank(docs, RERANK_TOP_N))
                 /\ rerankMode' = IF cohere THEN "empty" ELSE "passthrough"
    /\ calls' = Append(calls, "rerank")
    /\ pc' = "confidenceGate"
    /\ UNCHANGED <<thrown, enableHybrid, req, logWrite, userStrategy, classified, classifierStrategy,
                   response, termIndex, semanticResults, keywordResults, fusedResults,
                   semanticFallback, gateVars, rerankVars, indexVars, webhookVars, callVars>>

\* `// ===== LEGACY SEMANTIC-ONLY PIPELINE =====`
LegacyRetrieve ==
    /\ pc = "legacyRetrieve"
    /\ calls' = Append(calls, "retrieve")
    /\ \E ok \in BOOLEAN :
        IF ok
        THEN /\ \E out \in RetrievalOutcomes : finalResults' = out
             /\ response' = response
             /\ pc' = "confidenceGate"
        ELSE /\ finalResults' = finalResults
             /\ response' = InternalError
             /\ pc' = "done"
    /\ thrown' = IF pc' = "done" THEN "retrieve" ELSE thrown
    /\ UNCHANGED <<enableHybrid, req, logWrite, userStrategy, classified, classifierStrategy,
                   termIndex, semanticResults, keywordResults, fusedResults,
                   semanticFallback, rerankMode, gateVars, rerankVars, indexVars, webhookVars, callVars>>

\* `const isLowConfidence = !hasResults || bestScore < LOW_CONFIDENCE_THRESHOLD`
LowConfidenceOrEqual(final) ==
    Len(final) = 0 \/ ~RatLess(LOW_CONFIDENCE_THRESHOLD, final[1].score)
LowConfidence(final) ==
    LET hasResults == Len(final) > 0
        bestScore == IF hasResults THEN final[1].score ELSE Rat(0, 1)
    IN ~hasResults \/ RatLess(bestScore, LOW_CONFIDENCE_THRESHOLD)

\* which prompt builder is used
PromptAlwaysSystem(low) == "system"
PromptFor(low) == IF low THEN "general" ELSE "system"

\* the passages joined into `context`
ContextOf(final) == IF Len(final) > 0 THEN Ids(final) ELSE <<>>

\* `// Build context and select prompt based on retrieval confidence`
ConfidenceGate ==
    /\ pc = "confidenceGate"
    /\ isLowConfidence' = LowConfidence(finalResults)
    /\ context' = ContextOf(finalResults)
    /\ systemPrompt' = PromptFor(LowConfidence(finalResults))
    /\ pc' = "generate"
    /\ UNCHANGED <<thrown, enableHybrid, req, logWrite, userStrategy, classified, classifierStrategy,
                   response, calls, completion, pipelineVars, rerankVars, indexVars, webhookVars, callVars>>

\* the response once the chat-completion call has returned
AnswerResponse(out) ==
    CASE out = "ok" -> [status |-> 200, body |-> "stream"]
      [] out = "notOk" -> [status |-> 502, body |-> "OpenAI API error"]
      [] OTHER -> InternalError

\* logQueryAsync: logQuery returns at once when observability is disabled,
\* otherwise its promise is left pending and the handler goes on
LogQueryStarts == {"disabled", "pending"}

\* the response after the logQuery promise settles; a rejection only reaches
\* the `.catch` that prints it
ResponseAfterLogFailing(resp, outcome) ==
    IF outcome = "failed" THEN InternalError ELSE resp

ResponseAfterLog(resp, outcome) == resp

\* `// Stream response from OpenAI`, and for a successful completion
\* `// Log successful query (async, non-blocking)`
GenerateAnswer ==
    /\ pc = "generate"
    /\ \E out \in {"ok", "notOk", "throws"} :
        /\ completion' = out
        /\ thrown' = IF out = "throws" THEN "chatCompletion" ELSE thrown
        /\ response' = AnswerResponse(out)
        /\ IF out = "ok"
           THEN \E started \in LogQueryStarts : logWrite' = started
           ELSE logWrite' = logWrite
    /\ calls' = Append(calls, "chatCompletion")
    /\ pc' = "done"
    /\ UNCHANGED <<enableHybrid, req, userStrategy, classified, classifierStrategy,
                   isLowConfidence, context, systemPrompt, pipelineVars,
                   rerankVars, indexVars, webhookVars, callVars>>

\* ObservabilityService.logQuery settles: its writes went through, or one of
\* them failed and the error was caught
LogQuerySettles ==
    /\ logWrite = "pending"
    /\ \E outcome \in {"written", "failed"} :
        /\ logWrite' = outcome
        /\ response' = ResponseAfterLog(response, outcome)
    /\ UNCHANGED <<enableHybrid, req, pc, userStrategy, classified, classifierStrategy,
                   calls, thrown, pipelineVars, gateVars, rerankVars, indexVars,
                   webhookVars, callVars>>

ChatNext ==
    \/ CheckRateLimit
    \/ ValidateEnvironment
    \/ ParseBody
    \/ ClassifyQuery
    \/ LoadTermIndex
    \/ SemanticSearch
    \/ KeywordSearch
    \/ FuseResults
    \/ FuseWithSemanticFallback
    \/ RerankResults
    \/ LegacyRetrieve
    \/ ConfidenceGate
    \/ GenerateAnswer
    \/ LogQuerySettles


-----------------------------------------------------------------------------
(* Reranker.rerank on its own *)

DocIds == 1..MaxDocs

InitRerank ==
    /\ rrDocs \in { [i \in 1..Len(ids) |-> [id |-> ids[i]]] : ids \in InjSeqs(DocIds, MaxDocs) }
    /\ rrTopN \in 1..MaxTopN
    /\ rrOutcome = [kind |-> "none", results |-> <<>>]
    /\ rrResult = <<>>
    /\ rrPc = "call"

RerankIdle ==
    /\ rrDocs = <<>>
    /\ rrTopN = 1
    /\ rrOutcome = [kind |-> "none", results |-> <<>>]
    /\ rrResult = <<>>
    /\ rrPc = "idle"

\* reranker.rerank(query, rrDocs, rrTopN) with the Cohere key set
CallReranker ==
    /\ rrPc = "call"
    /\ \E resp \in RerankResponses(Len(rrDocs), Min(rrTopN, Len(rrDocs))) :
        /\ rrOutcome' = resp
        /\ rrResult' = RerankerRerank(rrDocs, rrTopN, resp)
    /\ rrPc' = "returned"
    /\ UNCHANGED <<rrDocs, rrTopN, chatVars, indexVars, webhookVars, callVars>>

\* reranker.rerank(query, rrDocs, rrTopN) without the key: PassthroughReranker
CallPassthrough ==
    /\ rrPc = "call"
    /\ rrOutcome' = [kind |-> "passthrough", results |-> <<>>]
    /\ rrResult' = PassthroughRerank(rrDocs, rrTopN)
    /\ rrPc' = "returned"
    /\ UNCHANGED <<rrDocs, rrTopN, chatVars, indexVars, webhookVars, callVars>>

RerankNext == CallReranker \/ CallPassthrough


-----------------------------------------------------------------------------
(* rag/indexer.ts indexDocs, rag/store-upstash.ts replaceAll and the          *)
(* storeTermIndex of the BM25 searcher: re-index runs, one at a time          *)

UPSERT_BATCH_SIZE == 1000

\* chunk counts a run can produce: one batch, a full batch, two batches
ChunkCounts == {1, UPSERT_BATCH_SIZE, UPSERT_BATCH_SIZE + 1}

\* Math.ceil(chunks.length / UPSERT_BATCH_SIZE)
NumBatches(n) == (n + UPSERT_BATCH_SIZE - 1) \div UPSERT_BATCH_SIZE

\* chunks.slice(i, i + UPSERT_BATCH_SIZE).length for the b-th batch
BatchSize(n, b) == Min(UPSERT_BATCH_SIZE, n - (b - 1) * UPSERT_BATCH_SIZE)

\* the failure results of indexDocs
IndexFailureNoErrors(message) ==
    [success |-> FALSE, pagesProcessed |-> 0, chunksCreated |-> 0,
     errors |-> <<>>]

IndexFailure(message) ==
    [success |-> FALSE, pagesProcessed |-> 0, chunksCreated |-> 0,
     errors |-> <<message>>]

\* the success result of indexDocs
IndexSuccess(pages, chunks) ==
    [success |-> TRUE, pagesProcessed |-> pages, chunksCreated |-> chunks,
     errors |-> <<>>]

\* await this.index.reset()
ResetIndex(store) == {}

\* await this.index.upsert(vectors): ids are deterministic, so the batch
\* overwrites what an earlier run stored under the same ids
UpsertBatch(store, b, r, size) ==
    { e \in store : e.batch # b } \cup { [batch |-> b, run |-> r, size |-> size] }

\* await redis.set("bm25:index", serialized)
SetTermIndex(stored, r) == Some(r)

\* no read of the vector index has been made
NoRead == [op |-> "none", store |-> {}, count |-> 0]

\* the index published before the first modelled run: none, or that of run 0
InitIndex ==
    /\ \E published \in BOOLEAN :
        /\ vectorStore = IF published THEN { [batch |-> 1, run |-> 0, size |-> 1] } ELSE {}
        /\ storedTermIndex = IF published THEN Some(0) ELSE Null
    /\ run = 0
    /\ runPages = 0
    /\ runChunks = 0
    /\ ixPc = "idle"
    /\ upserted = 0
    /\ before = [store |-> {}, term |-> Null]
    /\ lastResult = Null
    /\ qPc = "idle"
    /\ qTerm = Null
    /\ qRead = NoRead

IndexIdle ==
    /\ vectorStore = {}
    /\ storedTermIndex = Null
    /\ run = 0
    /\ runPages = 0
    /\ runChunks = 0
    /\ ixPc = "idle"
    /\ upserted = 0
    /\ before = [store |-> {}, term |-> Null]
    /\ lastResult = Null
    /\ qPc = "idle"
    /\ qTerm = Null
    /\ qRead = NoRead

\* indexDocs is called: `if (!apiKey) return {...}`
StartIndexDocs ==
    /\ ixPc = "idle"
    /\ run < MaxRuns
    /\ run' = run + 1
    /\ before' = [store |-> vectorStore, term |-> storedTermIndex]
    /\ upserted' = 0
    /\ runPages' = 0
    /\ runChunks' = 0
    /\ \E apiKey \in BOOLEAN :
        IF apiKey
        THEN /\ ixPc' = "fetch"
             /\ lastResult' = lastResult
        ELSE /\ ixPc' = "idle"
             /\ lastResult' = Some(IndexFailure("OPENAI_API_KEY is required"))
    /\ UNCHANGED <<vectorStore, storedTermIndex, chatVars, rerankVars, readerVars, webhookVars, callVars>>

\* new DocsStore(), fetchDocsFromLlmsTxt(), loadSupplementaryDocs() and the
\* chunking of every page (each page yields at least one chunk)
FetchAndChunk ==
    /\ ixPc = "fetch"
    /\ \E out \in {"storeUnconfigured", "fetchFails", "noPages", "pages"} :
        IF out = "pages"
        THEN /\ \E p \in 1..MaxPages :
                  /\ runPages' = p
                  /\ \E c \in { k \in ChunkCounts \cup {p} : k >= p } : runChunks' = c
             /\ ixPc' = "embed"
             /\ lastResult' = lastResult
        ELSE /\ UNCHANGED <<runPages, runChunks>>
             /\ ixPc' = "idle"
             /\ lastResult' = Some(IndexFailure(out))
    /\ UNCHANGED <<vectorStore, storedTermIndex, run, upserted, before,
                   chatVars, rerankVars, readerVars, webhookVars, callVars>>

\* await embeddings.embedBatch(texts)
EmbedBatch ==
    /\ ixPc = "embed"
    /\ \E ok \in BOOLEAN :
        IF ok
        THEN /\ ixPc' = "reset"
             /\ lastResult' = lastResult
        ELSE /\ ixPc' = "idle"
             /\ lastResult' = Some(IndexFailure("embedBatch"))
    /\ UNCHANGED <<vectorStore, storedTermIndex, run, runPages, runChunks,
                   upserted, before, chatVars, rerankVars, readerVars, webhookVars, callVars>>

\* store.replaceAll(allChunks): `await this.index.reset()`
ReplaceAllReset ==
    /\ ixPc = "reset"
    /\ \E ok \in BOOLEAN :
        IF ok
        THEN /\ vectorStore' = ResetIndex(vectorStore)
             /\ ixPc' = IF runChunks = 0 THEN "storeTermIndex" ELSE "upsert"
             /\ lastResult' = lastResult
        ELSE /\ vectorStore' = vectorStore
             /\ ixPc' = "idle"
             /\ lastResult' = Some(IndexFailure("reset"))
    /\ UNCHANGED <<storedTermIndex, run, runPages, runChunks, upserted, before,
                   chatVars, rerankVars, readerVars, webhookVars, callVars>>

\* store.replaceAll(allChunks): one turn of the upsert loop
ReplaceAllUpsert ==
    /\ ixPc = "upsert"
    /\ \E ok \in BOOLEAN :
        IF ok
        THEN /\ vectorStore' = UpsertBatch(vectorStore, upserted + 1, run,
                                           BatchSize(runChunks, upserted + 1))
             /\ upserted' = upserted + 1
             /\ ixPc' = IF upserted + 1 >= NumBatches(runChunks)
                        THEN "storeTermIndex" ELSE "upsert"
             /\ lastResult' = lastResult
        ELSE /\ UNCHANGED <<vectorStore, upserted>>
             /\ ixPc' = "idle"
             /\ lastResult' = Some(IndexFailure("upsert"))
    /\ UNCHANGED <<storedTermIndex, run, runPages, runChunks, before,
                   chatVars, rerankVars, readerVars, webhookVars, callVars>>

\* buildTermIndex and storeTermIndex (skipped with a warning when the store is
\* not configured), then the success result
StoreTermIndex ==
    /\ ixPc = "storeTermIndex"
    /\ \E out \in {"unconfigured", "stored", "throws"} :
        /\ storedTermIndex' = IF out = "stored" THEN SetTermIndex(storedTermIndex, run)
                              ELSE storedTermIndex
        /\ lastResult' = IF out = "throws" THEN Some(IndexFailure("redis.set"))
                         ELSE Some(IndexSuccess(runPages, runChunks))
    /\ ixPc' = "idle"
    /\ UNCHANGED <<vectorStore, run, runPages, runChunks, upserted, before,
                   chatVars, rerankVars, readerVars, webhookVars, callVars>>

\* info.vectorCount of a store
RECURSIVE VectorCount(_)
VectorCount(store) ==
    IF store = {} THEN 0
    ELSE LET e == CHOOSE x \in store : TRUE
         IN e.size + VectorCount(store \ {e})

\* a chat request's loadTermIndex(): redis.get("bm25:index")
QueryLoadTermIndex ==
    /\ qPc \in {"idle", "done"}
    /\ qTerm' = storedTermIndex
    /\ qPc' = "search"
    /\ UNCHANGED <<qRead, vectorStore, storedTermIndex, run, runPages, runChunks,
                   ixPc, upserted, before, lastResult, chatVars, rerankVars, webhookVars, callVars>>

\* the same request's retriever.retrieve: DocsStore.search, one index.query
QuerySearch ==
    /\ qPc = "search"
    /\ qRead' = [op |-> "search", store |-> vectorStore, count |-> 0]
    /\ qPc' = "done"
    /\ UNCHANGED <<qTerm, vectorStore, storedTermIndex, run, runPages, runChunks,
                   ixPc, upserted, before, lastResult, chatVars, rerankVars, webhookVars, callVars>>

\* DocsStore.count(): one index.info
StoreCount ==
    /\ qPc \in {"idle", "done"}
    /\ qRead' = [op |-> "count", store |-> {}, count |-> VectorCount(vectorStore)]
    /\ qPc' = "idle"
    /\ UNCHANGED <<qTerm, vectorStore, storedTermIndex, run, runPages, runChunks,
                   ixPc, upserted, before, lastResult, chatVars, rerankVars, webhookVars, callVars>>

IndexNext ==
    \/ StartIndexDocs
    \/ FetchAndChunk
    \/ EmbedBatch
    \/ ReplaceAllReset
    \/ ReplaceAllUpsert
    \/ StoreTermIndex
    \/ QueryLoadTermIndex
    \/ QuerySearch
    \/ StoreCount

-----------------------------------------------------------------------------
(* rag/indexer.ts verifyGitHubSignature and the two POST /api/webhook       *)
(* handlers: app/api/webhook/route.ts and dev-server.ts                     *)

\* shared secrets and raw request bodies
Keys == {"k1", "k2"}
RawBodies == {"", "not json", "{ref:refs/heads/main}", "{ref:refs/heads/dev}"}

\* hmacSha256Hex(key, data): distinct (key, data) pairs give distinct digests
hmacSha256Hex(key, data) == <<"hmac-sha256", key, data>>

\* the values of the X-Hub-Signature-256 header: absent, or a prefix and a digest
Signatures ==
    {Null} \cup
    { Some([prefix |-> p, hex |-> hmacSha256Hex(k, b)])
      : p \in {"sha256=", "sha1="}, k \in Keys, b \in RawBodies }

\* timingSafeEqual(a, b): same length and no differing character
timingSafeEqual(a, b) == a = b

\* verifyGitHubSignature(payload, signature, secret), once its promise resolves
verifyGitHubSignature(payload, signature, secret) ==
    IF signature = Null THEN FALSE
    ELSE timingSafeEqual(signature[1],
                         [prefix |-> "sha256=", hex |-> hmacSha256Hex(secret, payload)])

\* JavaScript values the handlers test: a promise of a boolean, or a boolean
Promise(b) == [kind |-> "promise", value |-> b]
Await(v) == [kind |-> "boolean", value |-> v.value]
\* an object is truthy whatever it resolves to
Truthy(v) == v.kind = "promise" \/ v.value

\* `!await verifyGitHubSignature(...)` of app/api/webhook/route.ts
SignatureRefusedNext(payload, signature, secret) ==
    ~Truthy(Await(Promise(verifyGitHubSignature(payload, signature, secret))))

\* `!verifyGitHubSignature(...)` of dev-server.ts: the promise itself is tested
SignatureRefusedDev(payload, signature, secret) ==
    ~Truthy(Promise(verifyGitHubSignature(payload, signature, secret)))

\* JSON.parse(rawBody): Null when it throws, else the payload's ref
JsonParse(rawBody) ==
    CASE rawBody = "{ref:refs/heads/main}" -> Some([ref |-> "refs/heads/main"])
      [] rawBody = "{ref:refs/heads/dev}" -> Some([ref |-> "refs/heads/dev"])
      [] OTHER -> Null

\* the payload each handler parses: dev-server.ts takes an empty body as {}
ParsePayload(handler, rawBody) ==
    IF handler = "dev" /\ rawBody = "" THEN Some([ref |-> "none"])
    ELSE JsonParse(rawBody)

\* isMainBranchPush(event, payload)
isMainBranchPush(event, payload) ==
    /\ event = "push"
    /\ payload.ref \in {"refs/heads/main", "refs/heads/master"}

WebhookRequests ==
    { [rawBody |-> b, signature |-> s, event |-> e]
      : b \in RawBodies, s \in Signatures, e \in {"push", "ping", "none"} }

\* number of trigger requests sent to the server process
MaxTriggers == 3

Triggers == 1..MaxTriggers

\* `let indexingStatus = { isIndexing: false, lastIndexed: null, lastResult: null }`
\* and no trigger request sent
TriggerIdle ==
    /\ trServer = "next"
    /\ trReq = [t \in Triggers |-> [endpoint |-> "webhook", valid |-> FALSE]]
    /\ trPc = [t \in Triggers |-> "idle"]
    /\ trResponse = [t \in Triggers |-> [code |-> 0, status |-> "none"]]
    /\ statusLastResult = Null
    /\ lastIndexed = Null
    /\ completed = <<>>

InitWebhook ==
    /\ TriggerIdle
    /\ whHandler \in {"next", "dev"}
    /\ whSecret \in {Null} \cup { Some(k) : k \in Keys }
    /\ whDevelopment \in BOOLEAN
    /\ (whHandler = "next" => ~whDevelopment)
    /\ whReq \in WebhookRequests
    /\ whPc = "checkSecret"
    /\ whResponse = 0
    /\ isIndexing \in BOOLEAN
    /\ indexDocsCalls = 0

\* no single delivery is being followed
DeliveryIdle ==
    /\ whHandler = "next"
    /\ whSecret = Null
    /\ whDevelopment = FALSE
    /\ whReq = [rawBody |-> "", signature |-> Null, event |-> "none"]
    /\ whPc = "idle"
    /\ whResponse = 0
    /\ isIndexing = FALSE
    /\ indexDocsCalls = 0

WebhookIdle == DeliveryIdle /\ TriggerIdle

\* `if (!webhookSecret)` / `if (!webhookSecret && !isDevelopment)`
WebhookCheckSecret ==
    /\ whPc = "checkSecret"
    /\ IF whSecret = Null /\ ~(whHandler = "dev" /\ whDevelopment)
       THEN whResponse' = 500 /\ whPc' = "done"
       ELSE whResponse' = whResponse /\ whPc' = "verify"
    /\ UNCHANGED <<whHandler, whSecret, whDevelopment, whReq, isIndexing,
                   indexDocsCalls, chatVars, rerankVars, indexVars, triggerVars, callVars>>

\* `// Verify signature`
WebhookVerifySignature ==
    /\ whPc = "verify"
    /\ LET refused ==
             IF whHandler = "next"
             THEN SignatureRefusedNext(whReq.rawBody, whReq.signature, whSecret[1])
             ELSE /\ whSecret # Null
                  /\ SignatureRefusedDev(whReq.rawBody, whReq.signature, whSecret[1])
       IN IF refused
          THEN whResponse' = 401 /\ whPc' = "done"
          ELSE whResponse' = whResponse /\ whPc' = "parse"
    /\ UNCHANGED <<whHandler, whSecret, whDevelopment, whReq, isIndexing,
                   indexDocsCalls, chatVars, rerankVars, indexVars, triggerVars, callVars>>

\* `// Parse payload`, the ping event and the main-branch filter
WebhookFilterEvent ==
    /\ whPc = "parse"
    /\ LET payload == ParsePayload(whHandler, whReq.rawBody)
       IN IF payload = Null
          THEN whResponse' = 400 /\ whPc' = "done"
          ELSE IF whReq.event = "ping"
          THEN whResponse' = 200 /\ whPc' = "done"
          ELSE IF ~(whHandler = "dev" /\ whDevelopment)
                  /\ ~isMainBranchPush(whReq.event, payload[1])
          THEN whResponse' = 200 /\ whPc' = "done"
          ELSE whResponse' = whResponse /\ whPc' = "trigger"
    /\ UNCHANGED <<whHandler, whSecret, whDevelopment, whReq, isIndexing,
                   indexDocsCalls, chatVars, rerankVars, indexVars, triggerVars, callVars>>

\* `// Prevent concurrent indexing` and `// Trigger indexing`
WebhookTriggerIndex ==
    /\ whPc = "trigger"
    /\ IF isIndexing
       THEN /\ whResponse' = 200
            /\ UNCHANGED <<isIndexing, indexDocsCalls>>
       ELSE /\ indexDocsCalls' = indexDocsCalls + 1
            /\ isIndexing' = FALSE
            /\ \E success \in BOOLEAN : whResponse' = IF success THEN 200 ELSE 500
    /\ whPc' = "done"
    /\ UNCHANGED <<whHandler, whSecret, whDevelopment, whReq,
                   chatVars, rerankVars, indexVars, triggerVars, callVars>>

WebhookNext ==
    \/ WebhookCheckSecret
    \/ WebhookVerifySignature
    \/ WebhookFilterEvent
    \/ WebhookTriggerIndex

-----------------------------------------------------------------------------
(* The re-index triggers of one server process, handled concurrently:      *)
(* POST of app/api/webhook/route.ts, or app.post("/api/webhook") and        *)
(* app.post("/api/reindex") of dev-server.ts, which share indexingStatus.   *)
(* A handler runs without interruption from one await to the next; the     *)
(* request validation ends with awaits (the body, the signature), and the  *)
(* next await is the one of indexDocs().                                   *)

\* the endpoints of a server that start a re-index
TriggerEndpoints(server) ==
    IF server = "dev" THEN {"webhook", "reindex"} ELSE {"webhook"}

\* a request and whether it passes the checks before the concurrency guard
\* (secret, signature, event filter; development mode for /api/reindex)
TriggerRequests(server) ==
    [endpoint : TriggerEndpoints(server), valid : BOOLEAN]

\* IndexResult values returned by indexDocs
IndexResults ==
    { [success |-> TRUE, pagesProcessed |-> 2],
      [success |-> TRUE, pagesProcessed |-> 1],
      [success |-> FALSE, pagesProcessed |-> 0] }

\* how `await indexDocs()` settles
RunOutcomes ==
    { [kind |-> "returned", result |-> r] : r \in IndexResults }
        \cup { [kind |-> "threw", result |-> Null] }

InitTrigger ==
    /\ trServer \in {"next", "dev"}
    /\ trReq \in [Triggers -> TriggerRequests(trServer)]
    /\ trPc = [t \in Triggers |-> "sent"]
    /\ trResponse = [t \in Triggers |-> [code |-> 0, status |-> "none"]]
    /\ statusLastResult = Null
    /\ lastIndexed = Null
    /\ completed = <<>>
    /\ isIndexing = FALSE

Respond(t, code, status) ==
    /\ trResponse' = [trResponse EXCEPT ![t] = [code |-> code, status |-> status]]
    /\ trPc' = [trPc EXCEPT ![t] = "done"]

\* the checks before the guard: 401/403/500 or "ignored" for a request that
\* does not pass them
TriggerValidate(t) ==
    /\ trPc[t] = "sent"
    /\ IF trReq[t].valid
       THEN /\ trPc' = [trPc EXCEPT ![t] = "guard"]
            /\ UNCHANGED trResponse
       ELSE Respond(t, IF trReq[t].endpoint = "reindex" THEN 403 ELSE 401, "rejected")
    /\ UNCHANGED <<trServer, trReq, statusLastResult, lastIndexed, completed,
                   isIndexing, whHandler, whSecret, whDevelopment, whReq, whPc,
                   whResponse, indexDocsCalls, chatVars, rerankVars, indexVars, callVars>>

\* the guard left out: every valid trigger starts a run
NeverIndexing == FALSE

\* `if (indexingStatus.isIndexing)`
AlreadyIndexing == isIndexing

\* `// Prevent concurrent indexing` up to `const result = await indexDocs()`:
\* the check, the assignment of the flag and the call, with no await between
TriggerGuard(t) ==
    /\ trPc[t] = "guard"
    /\ IF AlreadyIndexing
       THEN /\ Respond(t, 200, "skipped")
            /\ UNCHANGED isIndexing
       ELSE /\ isIndexing' = TRUE
            /\ trPc' = [trPc EXCEPT ![t] = "running"]
            /\ UNCHANGED trResponse
    /\ UNCHANGED <<trServer, trReq, statusLastResult, lastIndexed, completed,
                   whHandler, whSecret, whDevelopment, whReq, whPc,
                   whResponse, indexDocsCalls, chatVars, rerankVars, indexVars, callVars>>

\* the catch block without `indexingStatus.isIndexing = false`
FlagKeptWhenThrown(outcome) == outcome.kind = "threw"

\* `indexingStatus.isIndexing = false` of the try block and of the catch block
FlagAfterRun(outcome) == FALSE

\* `indexingStatus.lastResult = result`, not reached when indexDocs throws
LastResultAfterRun(outcome) ==
    IF outcome.kind = "returned" THEN Some(outcome.result) ELSE statusLastResult

\* `indexingStatus.lastIndexed = new Date()`: the time is the number of runs
\* that ended before
LastIndexedAfterRun(outcome) ==
    IF outcome.kind = "returned" THEN Some(Len(completed) + 1) ELSE lastIndexed

\* the rest of the handler once `await indexDocs()` has settled
RunSettles(t) ==
    /\ trPc[t] = "running"
    /\ \E outcome \in RunOutcomes :
        /\ isIndexing' = FlagAfterRun(outcome)
        /\ statusLastResult' = LastResultAfterRun(outcome)
        /\ lastIndexed' = LastIndexedAfterRun(outcome)
        /\ completed' = Append(completed, [trigger |-> t, outcome |-> outcome])
        /\ IF outcome.kind = "threw"
           THEN Respond(t, 500, "threw")
           ELSE IF outcome.result.success
                THEN Respond(t, 200, "success")
                ELSE Respond(t, 500, "error")
    /\ UNCHANGED <<trServer, trReq,
                   whHandler, whSecret, whDevelopment, whReq, whPc,
                   whResponse, indexDocsCalls, chatVars, rerankVars, indexVars, callVars>>

TriggerNext ==
    \E t \in Triggers :
        \/ TriggerValidate(t)
        \/ TriggerGuard(t)
        \/ RunSettles(t)

\* no pure function is being called
CallIdle ==
    /\ fnArgs = <<>>
    /\ fnResult = <<>>
    /\ fnPc = "idle"

-----------------------------------------------------------------------------
(* rag/fusion.ts called on its own: reciprocalRankFusion, weightedScoreFusion *)

\* longest result list given to a fusion function
MaxListLen == 3

\* rationals in lowest terms, to keep numerators and denominators small
RECURSIVE GCD(_, _)
GCD(a, b) == IF b = 0 THEN a ELSE GCD(b, a % b)
Reduced(r) ==
    LET g == GCD(IF r.n < 0 THEN -r.n ELSE r.n, r.d)
    IN [n |-> r.n \div g, d |-> r.d \div g]

RatSub(a, b) == Reduced([n |-> a.n * b.d - b.n * a.d, d |-> a.d * b.d])
RatMul(a, b) == Reduced([n |-> a.n * b.n, d |-> a.d * b.d])
\* a / b for b > 0
RatQuot(a, b) == Reduced([n |-> a.n * b.d, d |-> a.d * b.n])

\* the scores a retriever can report
ScoreValues == { Rat(1, 10), Rat(5, 10), Rat(9, 10) }

\* result lists as both retrievers return them: distinct chunks, best first
ResultLists ==
    UNION { { [i \in 1..m |-> [id |-> ids[i], score |-> sc[i]]]
              : ids \in { s \in [1..m -> ChunkIds] :
                            \A i, j \in 1..m : i # j => s[i] # s[j] },
                sc \in { s \in [1..m -> ScoreValues] :
                            \A i \in 1..(m - 1) : ~RatLess(s[i], s[i + 1]) } }
            : m \in 0..MaxListLen }

\* Math.min(...scores) and Math.max(...scores) of a non-empty list
MinScore(results) ==
    (CHOOSE r \in Range(results) : \A o \in Range(results) : ~RatLess(o.score, r.score)).score
MaxScore(results) ==
    (CHOOSE r \in Range(results) : \A o \in Range(results) : ~RatLess(r.score, o.score)).score

\* normalizeScores(results)
normalizeScoresSingleKept(results) ==
    IF Len(results) = 0 THEN <<>>
    ELSE IF RatEq(MaxScore(results), MinScore(results))
    THEN results
    ELSE [i \in 1..Len(results) |->
            [id |-> results[i].id,
             score |-> RatQuot(RatSub(results[i].score, MinScore(results)),
                               RatSub(MaxScore(results), MinScore(results)))]]

normalizeScores(results) ==
    IF Len(results) = 0 THEN <<>>
    ELSE IF Len(results) = 1 THEN <<[id |-> results[1].id, score |-> Rat(1, 1)]>>
    ELSE IF RatEq(MaxScore(results), MinScore(results))
    THEN [i \in 1..Len(results) |-> [id |-> results[i].id, score |-> Rat(1, 1)]]
    ELSE [i \in 1..Len(results) |->
            [id |-> results[i].id,
             score |-> RatQuot(RatSub(results[i].score, MinScore(results)),
                               RatSub(MaxScore(results), MinScore(results)))]]

\* weightedScoreFusion(semanticResults, keywordResults, chunks, semanticWeight,
\* keywordWeight); chunks is the set of ids the chunk map has data for
weightedScoreFusion(sem, kw, chunks, semanticWeight, keywordWeight) ==
    LET normalizedSemantic == normalizeScores(sem)
        normalizedKeyword == normalizeScores(kw)
        semIds == Ids(sem)
        kwIds == Ids(kw)
        order == semIds \o SelectSeq(kwIds, LAMBDA id : id \notin Range(semIds))
        inSem(id) == id \in Range(semIds)
        inKw(id) == id \in Range(kwIds)
        semPart(id) == RatMul(normalizedSemantic[IndexOf(semIds, id)].score, semanticWeight)
        kwPart(id) == RatMul(normalizedKeyword[IndexOf(kwIds, id)].score, keywordWeight)
        weighted(id) ==
            IF inSem(id) /\ inKw(id) THEN RatAdd(semPart(id), kwPart(id))
            ELSE IF inSem(id) THEN semPart(id)
            ELSE kwPart(id)
        entry(id) ==
            [id |-> id,
             semanticRank |-> IF inSem(id) THEN Some(IndexOf(semIds, id)) ELSE Null,
             semanticScore |-> IF inSem(id)
                               THEN Some(normalizedSemantic[IndexOf(semIds, id)].score)
                               ELSE Null,
             keywordRank |-> IF inKw(id) THEN Some(IndexOf(kwIds, id)) ELSE Null,
             keywordScore |-> IF inKw(id)
                              THEN Some(normalizedKeyword[IndexOf(kwIds, id)].score)
                              ELSE Null,
             fusedScore |-> weighted(id)]
        found == SelectSeq(order, LAMBDA id : inSem(id) \/ id \in chunks)
    IN SortByFusedScore([i \in 1..Len(found) |-> entry(found[i])])

\* the weights a caller passes: the defaults 0.7 / 0.3, or equal weights
FusionWeights ==
    { [semanticWeight |-> Rat(7, 10), keywordWeight |-> Rat(3, 10)],
      [semanticWeight |-> Rat(1, 2), keywordWeight |-> Rat(1, 2)] }

InitFusion ==
    /\ fnArgs \in { [sem |-> s, kw |-> w, chunks |-> c, k |-> DEFAULT_RRF_K,
                     semanticWeight |-> g.semanticWeight,
                     keywordWeight |-> g.keywordWeight]
                    : s \in ResultLists, w \in ResultLists,
                      c \in {ChunkIds, {}}, g \in FusionWeights }
    /\ fnResult = <<>>
    /\ fnPc = "call"

\* reciprocalRankFusion(sem, kw, chunks)
CallReciprocalRankFusion ==
    /\ fnPc = "call"
    /\ fnResult' = reciprocalRankFusion(fnArgs.sem, fnArgs.kw, fnArgs.chunks, fnArgs.k)
    /\ fnPc' = "rrf"
    /\ UNCHANGED <<fnArgs, chatVars, rerankVars, indexVars, webhookVars>>

\* weightedScoreFusion(sem, kw, chunks, semanticWeight, keywordWeight)
CallWeightedScoreFusion ==
    /\ fnPc = "call"
    /\ fnResult' = weightedScoreFusion(fnArgs.sem, fnArgs.kw, fnArgs.chunks,
                                       fnArgs.semanticWeight, fnArgs.keywordWeight)
    /\ fnPc' = "weighted"
    /\ UNCHANGED <<fnArgs, chatVars, rerankVars, indexVars, webhookVars>>

FusionNext == CallReciprocalRankFusion \/ CallWeightedScoreFusion

-----------------------------------------------------------------------------
(* rag/ratelimit.ts: BM25Searcher.search and buildTermIndex on their own *)

\* largest corpus given to buildTermIndex
MaxChunks == 2

\* BM25 parameters
DEFAULT_K1 == Rat(3, 2)
DEFAULT_B == Rat(3, 4)

\* the words texts are written with: a capitalised word, a word followed by
\* punctuation, a stop word and a one-letter word
RawWords == {"Gateway", "webhook?", "the", "x"}
\* the members of STOP_WORDS among the words of the model
STOP_WORDS == {"the"}
\* the words whose length is not above 1
ShortWords == {"", "x"}

\* text.toLowerCase().replace(/[^\w\s\-_]/g, " ").split(/\s+/) on one word:
\* the punctuation sign becomes a space, which leaves an empty last piece
LowerAndSplit(w) ==
    CASE w = "Gateway" -> <<"gateway">>
      [] w = "webhook?" -> <<"webhook", "">>
      [] OTHER -> <<w>>

RECURSIVE Concat(_)
Concat(seqs) ==
    IF Len(seqs) = 0 THEN <<>> ELSE seqs[1] \o Concat(Tail(seqs))

\* BM25Searcher.tokenize, and the same pipeline inlined in buildTermIndex
tokenize(text) ==
    SelectSeq(Concat([i \in 1..Len(text) |-> LowerAndSplit(text[i])]),
              LAMBDA w : w \notin ShortWords /\ w \notin STOP_WORDS)

\* the tokens of `${chunk.title} ${chunk.content}`
ChunkTokens(chunk) == tokenize(chunk.title \o chunk.content)

RECURSIVE TotalLength(_)
TotalLength(tokenLists) ==
    IF Len(tokenLists) = 0 THEN 0
    ELSE Len(tokenLists[1]) + TotalLength(Tail(tokenLists))

\* buildTermIndex(chunks): docLengths is a Map, so a later chunk with the same
\* id overwrites the length of an earlier one, while totalLength, totalDocs
\* and the posting lists count every chunk
buildTermIndex(chunks) ==
    LET n == Len(chunks)
        toks == [i \in 1..n |-> ChunkTokens(chunks[i])]
        last(id) == CHOOSE i \in 1..n :
                        /\ chunks[i].id = id
                        /\ \A j \in (i + 1)..n : chunks[j].id # id
        holders(t) == SelectSeq([i \in 1..n |-> i], LAMBDA i : t \in Range(toks[i]))
        posting(i, t) ==
            [id |-> chunks[i].id,
             freq |-> Cardinality({ p \in 1..Len(toks[i]) : toks[i][p] = t }),
             positions |-> SelectSeq([p \in 1..Len(toks[i]) |-> p - 1],
                                     LAMBDA q : toks[i][q + 1] = t)]
    IN [terms |-> [t \in UNION { Range(toks[i]) : i \in 1..n } |->
                     [k \in 1..Len(holders(t)) |-> posting(holders(t)[k], t)]],
        docLengths |-> [id \in { chunks[i].id : i \in 1..n } |-> Len(toks[last(id)])],
        avgDocLength |-> IF n > 0 THEN Reduced(Rat(TotalLength(toks), n)) ELSE Rat(0, 1),
        totalDocs |-> n]

\* sums and comparisons over the common denominator, in lowest terms
RatPlus(a, b) ==
    LET g == GCD(a.d, b.d)
    IN Reduced([n |-> a.n * (b.d \div g) + b.n * (a.d \div g),
                d |-> (a.d \div g) * b.d])
RatBelow(a, b) ==
    LET g == GCD(a.d, b.d)
    IN a.n * (b.d \div g) < b.n * (a.d \div g)

\* Math.log has no rational value: it is modelled by x - 1, its tangent at 1,
\* which like the logarithm is increasing, zero at 1 and positive exactly
\* above 1
Ln(x) == Reduced(Rat(x.n - x.d, x.d))

\* the classic inverse document frequency, Math.log((N - df + 0.5) / (df + 0.5))
IdfUnsmoothed(N, df) == Ln(Reduced(Rat(2 * (N - df) + 1, 2 * df + 1)))

\* const idf = Math.log((N - df + 0.5) / (df + 0.5) + 1)
Idf(N, df) == Ln(Reduced(Rat((2 * (N - df) + 1) + (2 * df + 1), 2 * df + 1)))

\* (tf * (k1 + 1)) / (tf + k1 * (1 - b + b * (docLength / avgDL)))
TfNorm(tf, docLength, avgDL, k1, b) ==
    LET one == Rat(1, 1)
        lengthNorm == RatPlus(RatSub(one, b), RatMul(b, RatQuot(docLength, avgDL)))
    IN RatQuot(RatMul(Rat(tf, 1), RatPlus(k1, one)),
               RatPlus(Rat(tf, 1), RatMul(k1, lengthNorm)))

RECURSIVE RatSum(_)
RatSum(rs) ==
    IF Len(rs) = 0 THEN Rat(0, 1) ELSE RatPlus(rs[1], RatSum(Tail(rs)))

\* .sort((a, b) => b.score - a.score): stable, descending
RECURSIVE SortByScore(_)
SortByScore(list) ==
    IF Len(list) = 0 THEN <<>>
    ELSE LET sorted == SortByScore(SubSeq(list, 1, Len(list) - 1))
             e == list[Len(list)]
             keep == Cardinality({ i \in 1..Len(sorted) :
                                    ~RatBelow(sorted[i].score, e.score) })
         IN SubSeq(sorted, 1, keep) \o <<e>> \o SubSeq(sorted, keep + 1, Len(sorted))

\* the first occurrences of a sequence, in order: the key order of a Map
RECURSIVE FirstOccurrences(_)
FirstOccurrences(s) ==
    IF Len(s) = 0 THEN <<>>
    ELSE LET front == FirstOccurrences(SubSeq(s, 1, Len(s) - 1))
         IN IF s[Len(s)] \in Range(front) THEN front ELSE Append(front, s[Len(s)])

\* BM25Searcher.search(query, limit) of a searcher built over index with the
\* default k1 and b
search(index, query, limit) ==
    LET tokens == tokenize(query)
        N == index.totalDocs
        avgDL == index.avgDocLength
        postingsOf(token) ==
            IF token \in DOMAIN index.terms THEN index.terms[token] ELSE <<>>
        \* docLengths.get(posting.id) || avgDL
        docLength(id) ==
            IF id \in DOMAIN index.docLengths /\ index.docLengths[id] # 0
            THEN Rat(index.docLengths[id], 1)
            ELSE avgDL
        termScore(token, posting) ==
            RatMul(Idf(N, Len(postingsOf(token))),
                   TfNorm(posting.freq, docLength(posting.id), avgDL,
                          DEFAULT_K1, DEFAULT_B))
        \* one contribution per query token and posting, in loop order
        contributions ==
            Concat([t \in 1..Len(tokens) |->
                      [p \in 1..Len(postingsOf(tokens[t])) |->
                         [id |-> postingsOf(tokens[t])[p].id,
                          score |-> termScore(tokens[t], postingsOf(tokens[t])[p])]]])
        ids == FirstOccurrences([c \in 1..Len(contributions) |-> contributions[c].id])
        total(id) ==
            RatSum([c \in 1..Len(SelectSeq(contributions, LAMBDA x : x.id = id)) |->
                      SelectSeq(contributions, LAMBDA x : x.id = id)[c].score])
        sorted == SortByScore([i \in 1..Len(ids) |-> [id |-> ids[i], score |-> total(ids[i])]])
    IN IF Len(tokens) = 0 THEN <<>>
       ELSE SubSeq(sorted, 1, Min(limit, Len(sorted)))

\* the texts of titles, contents and queries
Titles == { <<>>, <<"Gateway">> }
Contents ==
    { <<>>, <<"the", "x">>, <<"Gateway">>, <<"webhook?">>,
      <<"Gateway", "webhook?", "Gateway">> }
Queries ==
    { <<>>, <<"the", "x">>, <<"Gateway">>, <<"webhook?">>,
      <<"webhook?", "Gateway", "the">>, <<"Gateway", "webhook?", "Gateway">> }
\* ids as generateChunkId gives them: a hash of the page url and the chunk
\* number, so two pages with one url give chunks with one id
CorpusIds == {"c1", "c2"}
Corpora ==
    UNION { [1..m -> [id : CorpusIds, title : Titles, content : Contents]]
            : m \in 0..MaxChunks }
\* the limits search is called with: 20 by POST, 1 by calculatePhraseScore
SearchLimits == {1, 20}

InitBM25 ==
    /\ fnArgs \in [chunks : Corpora, query : Queries, limit : SearchLimits]
    /\ fnResult = <<>>
    /\ fnPc = "call"

\* const termIndex = buildTermIndex(chunks)
CallBuildTermIndex ==
    /\ fnPc = "call"
    /\ fnResult' = [index |-> buildTermIndex(fnArgs.chunks)]
    /\ fnPc' = "built"
    /\ UNCHANGED <<fnArgs, chatVars, rerankVars, indexVars, webhookVars>>

\* new BM25Searcher(termIndex).search(query, limit)
CallSearch ==
    /\ fnPc = "built"
    /\ fnResult' = [index |-> fnResult.index,
                    results |-> search(fnResult.index, fnArgs.query, fnArgs.limit)]
    /\ fnPc' = "searched"
    /\ UNCHANGED <<fnArgs, chatVars, rerankVars, indexVars, webhookVars>>

\* ---- serializeTermIndex / deserializeTermIndex ----
\* JSON values are records tagged with their type; a JSON text is a string
\* value holding the document it denotes.

\* Array.from(map.entries()): the [key, value] pairs of a Map
RECURSIVE MapEntries(_)
MapEntries(map) ==
    IF DOMAIN map = {} THEN <<>>
    ELSE LET k == CHOOSE x \in DOMAIN map : TRUE
         IN <<<<k, map[k]>>>> \o MapEntries([x \in DOMAIN map \ {k} |-> map[x]])

\* JSON.stringify of a number: a finite number is written in full, NaN and
\* the infinities (here: a zero denominator) are written as null
JsonNumber(x) ==
    IF x.d = 0 THEN [t |-> "null"] ELSE [t |-> "number", v |-> x]

\* JSON.stringify of a TermPosting
JsonPosting(p) ==
    [t |-> "object",
     id |-> [t |-> "string", v |-> p.id],
     freq |-> JsonNumber(Rat(p.freq, 1)),
     positions |-> [t |-> "array",
                    items |-> [i \in 1..Len(p.positions) |->
                                 JsonNumber(Rat(p.positions[i], 1))]]]

\* JSON.stringify(index) without Array.from: a Map has no enumerable
\* property and is written as {}
serializeTermIndexMapsAsObjects(index) ==
    [t |-> "string",
     v |-> [t |-> "object",
            terms |-> [t |-> "object"],
            docLengths |-> [t |-> "object"],
            avgDocLength |-> JsonNumber(index.avgDocLength),
            totalDocs |-> JsonNumber(Rat(index.totalDocs, 1))]]

\* serializeTermIndex(index)
serializeTermIndex(index) ==
    LET terms == MapEntries(index.terms)
        docLengths == MapEntries(index.docLengths)
    IN [t |-> "string",
        v |-> [t |-> "object",
               terms |-> [t |-> "array",
                          items |-> [i \in 1..Len(terms) |->
                             [t |-> "array",
                              items |-> << [t |-> "string", v |-> terms[i][1]],
                                           [t |-> "array",
                                            items |-> [k \in 1..Len(terms[i][2]) |->
                                                         JsonPosting(terms[i][2][k])]] >>]]],
               docLengths |-> [t |-> "array",
                               items |-> [i \in 1..Len(docLengths) |->
                                  [t |-> "array",
                                   items |-> << [t |-> "string", v |-> docLengths[i][1]],
                                                JsonNumber(Rat(docLengths[i][2], 1)) >>]]],
               avgDocLength |-> JsonNumber(index.avgDocLength),
               totalDocs |-> JsonNumber(Rat(index.totalDocs, 1))]]

\* the JavaScript value of a parsed JSON number or null
NumberValue(j) == IF j.t = "number" THEN j.v ELSE Null
IntegerValue(j) == IF j.t = "number" THEN j.v.n \div j.v.d ELSE Null

\* the TermPosting read back from a parsed posting object
PostingValue(j) ==
    [id |-> j.id.v,
     freq |-> IntegerValue(j.freq),
     positions |-> [i \in 1..Len(j.positions.items) |->
                      IntegerValue(j.positions.items[i])]]

\* new Map(entries): a later entry replaces an earlier one with the same key
MapOfEntries(entries) ==
    LET last(k) == CHOOSE i \in 1..Len(entries) :
                       /\ entries[i].items[1].v = k
                       /\ \A j \in (i + 1)..Len(entries) : entries[j].items[1].v # k
    IN [k \in { entries[i].items[1].v : i \in 1..Len(entries) } |->
          entries[last(k)].items[2]]

\* deserializeTermIndex(data): a string is parsed, an object is used as it
\* is; new Map of a value that is not iterable throws a TypeError
deserializeTermIndex(data) ==
    LET parsed == IF data.t = "string" THEN data.v ELSE data
    IN IF parsed.terms.t # "array" \/ parsed.docLengths.t # "array"
       THEN [thrown |-> "TypeError"]
       ELSE LET terms == MapOfEntries(parsed.terms.items)
                docLengths == MapOfEntries(parsed.docLengths.items)
            IN
            [terms |-> [t \in DOMAIN terms |->
                          [k \in 1..Len(terms[t].items) |-> PostingValue(terms[t].items[k])]],
             docLengths |-> [d \in DOMAIN docLengths |-> IntegerValue(docLengths[d])],
             avgDocLength |-> NumberValue(parsed.avgDocLength),
             totalDocs |-> IntegerValue(parsed.totalDocs)]

\* what redis.get hands to deserializeTermIndex: the stored text, or the
\* object the client has already parsed from it
StoredForms(serialized) == { serialized, serialized.v }

\* const serialized = serializeTermIndex(index)
CallSerialize ==
    /\ fnPc = "built"
    /\ fnResult' = [index |-> fnResult.index,
                    serialized |-> serializeTermIndex(fnResult.index)]
    /\ fnPc' = "serialized"
    /\ UNCHANGED <<fnArgs, chatVars, rerankVars, indexVars, webhookVars>>

\* deserializeTermIndex(data) in loadTermIndex
CallDeserialize ==
    /\ fnPc = "serialized"
    /\ \E data \in StoredForms(fnResult.serialized) :
          fnResult' = [index |-> fnResult.index,
                       data |-> data,
                       restored |-> deserializeTermIndex(data)]
    /\ fnPc' = "deserialized"
    /\ UNCHANGED <<fnArgs, chatVars, rerankVars, indexVars, webhookVars>>

\* ---- BM25Searcher.searchPhrase ----

\* postings?.find(p => p.id === docId): the first posting of the chunk, Null
\* when the token or the chunk has none
PostingOf(index, token, docId) ==
    LET postings == IF token \in DOMAIN index.terms THEN index.terms[token] ELSE <<>>
        own == SelectSeq(postings, LAMBDA p : p.id = docId)
    IN IF Len(own) = 0 THEN Null ELSE Some(own[1])

\* findDocsWithAllTokens(tokens): the chunks of the first token's postings
\* that have a posting for every other token, in posting order
findDocsWithAllTokens(index, tokens) ==
    IF Len(tokens) = 0 \/ tokens[1] \notin DOMAIN index.terms THEN <<>>
    ELSE LET first == FirstOccurrences([p \in 1..Len(index.terms[tokens[1]]) |->
                                          index.terms[tokens[1]][p].id])
         IN SelectSeq(first, LAMBDA d : \A i \in 2..Len(tokens) :
                                           PostingOf(index, tokens[i], d) # Null)

\* tokenPositions[i].find(p => p > currentPos) for i, i + 1, ...: the position
\* reached for the last token, -1 when some token has no later position
RECURSIVE FollowInOrder(_, _, _)
FollowInOrder(tokenPositions, i, currentPos) ==
    IF i > Len(tokenPositions) THEN currentPos
    ELSE LET later == SelectSeq(tokenPositions[i], LAMBDA p : p > currentPos)
         IN IF Len(later) = 0 THEN -1
            ELSE FollowInOrder(tokenPositions, i + 1, later[1])

\* minSpan of calculatePhraseScore, -1 for Infinity
MinSpanOf(tokenPositions) ==
    LET spans == { FollowInOrder(tokenPositions, 2, tokenPositions[1][f])
                      - tokenPositions[1][f]
                   : f \in { g \in 1..Len(tokenPositions[1]) :
                               FollowInOrder(tokenPositions, 2, tokenPositions[1][g]) # -1 } }
    IN IF spans = {} THEN -1
       ELSE CHOOSE s \in spans : \A u \in spans : s <= u

\* this.search(tokens.join(" "), 1)[0]?.score || 0: the score of the best
\* chunk for the tokens
BaseScore(index, tokens) ==
    LET top == search(index, tokens, 1)
    IN IF Len(top) = 0 THEN Rat(0, 1) ELSE top[1].score

\* calculatePhraseScore(docId, tokens), given the score it starts from
PhraseScoreFrom(index, docId, tokens, base) ==
    IF \E i \in 1..Len(tokens) :
          \/ PostingOf(index, tokens[i], docId) = Null
          \/ Len(PostingOf(index, tokens[i], docId)[1].positions) = 0
    THEN Rat(0, 1)
    ELSE LET tokenPositions == [i \in 1..Len(tokens) |->
                                  PostingOf(index, tokens[i], docId)[1].positions]
             minSpan == MinSpanOf(tokenPositions)
         IN IF minSpan = -1
            THEN RatMul(base, Rat(1, 2))
            ELSE RatMul(base, RatPlus(Rat(1, 1), Reduced(Rat(Len(tokens) - 1, minSpan + 1))))

calculatePhraseScore(index, docId, tokens) ==
    PhraseScoreFrom(index, docId, tokens, BaseScore(index, tokens))

\* searchPhrase(phrase, limit)
searchPhrase(index, phrase, limit) ==
    LET tokens == tokenize(phrase)
        candidateDocs == findDocsWithAllTokens(index, tokens)
        scored == [i \in 1..Len(candidateDocs) |->
                     [id |-> candidateDocs[i],
                      score |-> calculatePhraseScore(index, candidateDocs[i], tokens)]]
        sorted == SortByScore(SelectSeq(scored, LAMBDA r : r.score.n > 0))
    IN IF Len(tokens) < 2 THEN search(index, phrase, limit)
       ELSE IF Len(candidateDocs) = 0 THEN search(index, phrase, limit)
       ELSE SubSeq(sorted, 1, Min(limit, Len(sorted)))

\* new BM25Searcher(termIndex).searchPhrase(query, limit)
CallSearchPhrase ==
    /\ fnPc = "built"
    /\ fnResult' = [index |-> fnResult.index,
                    results |-> searchPhrase(fnResult.index, fnArgs.query, fnArgs.limit)]
    /\ fnPc' = "phrase"
    /\ UNCHANGED <<fnArgs, chatVars, rerankVars, indexVars, webhookVars>>

BM25Next ==
    \/ CallBuildTermIndex
    \/ CallSearch
    \/ CallSearchPhrase
    \/ CallSerialize
    \/ CallDeserialize

-----------------------------------------------------------------------------
(* rag/classifier.ts: classifyQuery on its own *)

\* longest query, in words
MaxQueryWords == 4

\* the words queries are written with; POST passes the trimmed message, so a
\* query is a non-empty sequence of words
QueryWords ==
    {"Error", "vs", "<run>", "function", "How", "gateway", "auth", "API",
     "config", "oauth"}
ClassifierQueries == UNION { [1..n -> QueryWords] : n \in 1..MaxQueryWords }

\* the word as a pattern with the i flag, or toLowerCase, sees it
LowerCase(w) ==
    CASE w = "Error" -> "error"
      [] w = "How" -> "how"
      [] w = "API" -> "api"
      [] OTHER -> w

\* the word is a code reference in backticks (written <run> here)
InBackticks(w) == w = "<run>"
\* the word starts with a character of \w
StartsWithWordChar(w) == ~InBackticks(w)

\* /\b(error|bug|issue|...)\b/i and the other TROUBLESHOOTING_PATTERNS
MatchesTroubleshooting(query) ==
    \E i \in 1..Len(query) : LowerCase(query[i]) = "error"

\* /\b(vs|versus|compared to|difference between|or)\b/i and the other
\* COMPARISON_PATTERNS
MatchesComparison(query) ==
    \E i \in 1..Len(query) : LowerCase(query[i]) = "vs"

\* a backtick pair, or /\b(function|class|const)\s+\w+/i.test(query)
hasCodeRefs(query) ==
    \E i \in 1..Len(query) :
        \/ InBackticks(query[i])
        \/ /\ LowerCase(query[i]) = "function"
           /\ i < Len(query)
           /\ StartsWithWordChar(query[i + 1])

\* LOOKUP_PATTERNS: backticks, a declaration keyword followed by a name,
\* /\b(api|endpoint|route|path)\s*[:=]?\s*[\/\w]+/i
MatchesLookup(query) ==
    \/ hasCodeRefs(query)
    \/ \E i \in 1..(Len(query) - 1) :
          /\ LowerCase(query[i]) = "api"
          /\ StartsWithWordChar(query[i + 1])

\* /^(how|what|why|when|explain|describe)\b/i and the other
\* CONCEPTUAL_PATTERNS
MatchesConceptual(query) == LowerCase(query[1]) = "how"

\* detectIntent with the lookup patterns tried first
detectIntentLookupFirst(query) ==
    IF MatchesLookup(query) THEN "lookup"
    ELSE IF MatchesTroubleshooting(query) THEN "troubleshooting"
    ELSE IF MatchesComparison(query) THEN "comparison"
    ELSE IF MatchesConceptual(query) THEN "conceptual"
    ELSE IF Len(query) <= 3 THEN "lookup" ELSE "conceptual"

\* detectIntent(query); query.split(/\s+/).length is the number of words of
\* a trimmed query
detectIntent(query) ==
    IF MatchesTroubleshooting(query) THEN "troubleshooting"
    ELSE IF MatchesComparison(query) THEN "comparison"
    ELSE IF MatchesLookup(query) THEN "lookup"
    ELSE IF MatchesConceptual(query) THEN "conceptual"
    ELSE IF Len(query) <= 3 THEN "lookup" ELSE "conceptual"

\* determineStrategy(query, intent)
determineStrategy(query, intent) ==
    IF intent = "lookup"
    THEN IF hasCodeRefs(query) THEN "keyword" ELSE "hybrid"
    ELSE IF intent = "conceptual" \/ intent = "comparison" THEN "semantic"
    ELSE IF intent = "troubleshooting" THEN "hybrid"
    ELSE "hybrid"

\* Object.entries(SYNONYMS) in key order, with synonyms[0], for the
\* abbreviations among the words of the model
SYNONYMS ==
    << [abbrev |-> "auth", primary |-> "authentication"],
       [abbrev |-> "config", primary |-> "configuration"],
       [abbrev |-> "api", primary |-> "endpoint"] >>

\* new RegExp of \b abbrev \b with flags gi, tested once on the query
ContainsWord(query, abbrev) ==
    \E i \in 1..Len(query) :
        LowerCase(IF InBackticks(query[i]) THEN "run" ELSE query[i]) = abbrev

\* expandQuery with one synonym appended per occurrence of an abbreviation
expandQueryPerOccurrence(query) ==
    query \o Concat([i \in 1..Len(query) |->
                       Concat([s \in 1..Len(SYNONYMS) |->
                                 IF LowerCase(query[i]) = SYNONYMS[s].abbrev
                                 THEN <<SYNONYMS[s].primary>> ELSE <<>>])])

\* expandQuery(query): synonyms[0] is appended per abbreviation found;
\* the final trim() removes nothing from a trimmed query
expandQuery(query) ==
    query \o Concat([s \in 1..Len(SYNONYMS) |->
                       IF ContainsWord(query, SYNONYMS[s].abbrev)
                       THEN <<SYNONYMS[s].primary>> ELSE <<>>])

\* the members of the classifier.ts STOP_WORDS among the words of the model
CLASSIFIER_STOP_WORDS == {"how"}
\* the words of two characters or fewer
TwoCharWords == {"vs"}

\* extractKeywords(query): backtick contents first, then the lower-cased
\* words longer than 2 that are no stop words, without repetition
extractKeywords(query) ==
    LET codeRefs == Concat([i \in 1..Len(query) |->
                              IF InBackticks(query[i]) THEN <<"run">> ELSE <<>>])
        lowered == [i \in 1..Len(query) |->
                      LowerCase(IF InBackticks(query[i]) THEN "run" ELSE query[i])]
        words == SelectSeq(lowered, LAMBDA w : w \notin TwoCharWords
                                               /\ w \notin CLASSIFIER_STOP_WORDS)
    IN FirstOccurrences(codeRefs \o words)

\* classifyQuery(query)
classifyQuery(query) ==
    [original |-> query,
     expanded |-> expandQuery(query),
     intent |-> detectIntent(query),
     strategy |-> determineStrategy(query, detectIntent(query)),
     keywords |-> extractKeywords(query)]

InitClassifier ==
    /\ fnArgs \in [query : ClassifierQueries]
    /\ fnResult = <<>>
    /\ fnPc = "call"

\* const classified = classifyQuery(trimmedMessage)
CallClassifyQuery ==
    /\ fnPc = "call"
    /\ fnResult' = classifyQuery(fnArgs.query)
    /\ fnPc' = "classified"
    /\ UNCHANGED <<fnArgs, chatVars, rerankVars, indexVars, webhookVars>>

ClassifierNext == CallClassifyQuery

-----------------------------------------------------------------------------
(* rag/indexer.ts: chunkContent on its own *)

\* most segments a page content is made of
MaxSegments == 5

\* chunkContent(page, chunkSize = 1000, overlap = 200)
DEFAULT_CHUNK_SIZE == 1000
DEFAULT_OVERLAP == 200
\* if (chunkText.length > 50)
MIN_CHUNK_TEXT == 50

\* A content is a sequence of runs [ch, n]: n characters of one class, where
\* "a" is a run of letters, "." a full stop, " " a space, "\n" a newline and
\* "blank" a run of lines that hold one space each: newline, space, newline,
\* space, ... (cleanMarkdown leaves such lines as they are)
TextRun(n) == <<[ch |-> "a", n |-> n]>>
SentenceEnd == <<[ch |-> ".", n |-> 1], [ch |-> " ", n |-> 1]>>
Paragraph == <<[ch |-> "\n", n |-> 2]>>
Space == <<[ch |-> " ", n |-> 1]>>
BlankLines(n) == <<[ch |-> "blank", n |-> n]>>

\* the pieces page contents are made of
TextSegments == { TextRun(10), TextRun(300), TextRun(600), TextRun(998), TextRun(1000) }
Segments == TextSegments \cup { SentenceEnd, Paragraph, Space, BlankLines(900) }

\* cleanMarkdown ends with trim(), so a content starts and ends with text
PageContents ==
    UNION { { Concat(s) : s \in { q \in [1..m -> Segments] :
                                    q[1] \in TextSegments /\ q[m] \in TextSegments } }
            : m \in 1..MaxSegments }

RECURSIVE ContentLength(_)
ContentLength(content) ==
    IF Len(content) = 0 THEN 0 ELSE content[1].n + ContentLength(Tail(content))

\* the run that holds position p (from 0), and the position where run i starts
RunStart(content, i) == ContentLength(SubSeq(content, 1, i - 1))
RunAt(content, p) ==
    CHOOSE i \in 1..Len(content) :
        RunStart(content, i) <= p /\ p < RunStart(content, i) + content[i].n

\* content[p]
CharAt(content, p) ==
    LET i == RunAt(content, p)
    IN IF content[i].ch = "blank"
       THEN (IF (p - RunStart(content, i)) % 2 = 0 THEN "\n" ELSE " ")
       ELSE content[i].ch

IsWhitespace(c) == c \in {" ", "\n"}

\* the break strings, in the order chunkContent tries them
breakPoints == << <<".", " ">>, <<".", "\n">>, <<"\n", "\n">>, <<"\n">>, <<" ">> >>

\* bp occurs in content at position p
OccursAt(content, bp, p) ==
    /\ p >= 0
    /\ p + Len(bp) <= ContentLength(content)
    /\ \A k \in 1..Len(bp) : CharAt(content, p + k - 1) = bp[k]

\* content.lastIndexOf(bp, position): the last occurrence that starts at or
\* before position, -1 when there is none. A run that cannot hold the first
\* character of bp is passed over in one step; in a run of blank lines the
\* characters alternate, so bp occurs at p, at p - 1 or nowhere below p.
RECURSIVE SearchBackward(_, _, _)
SearchBackward(content, bp, p) ==
    IF p < 0 THEN -1
    ELSE IF OccursAt(content, bp, p) THEN p
    ELSE LET i == RunAt(content, p)
         IN IF content[i].ch = "blank"
            THEN IF p - 1 >= RunStart(content, i) /\ OccursAt(content, bp, p - 1)
                 THEN p - 1
                 ELSE SearchBackward(content, bp, RunStart(content, i) - 1)
            ELSE IF content[i].ch = bp[1]
            THEN SearchBackward(content, bp, p - 1)
            ELSE SearchBackward(content, bp, RunStart(content, i) - 1)

lastIndexOf(content, bp, position) ==
    SearchBackward(content, bp, Min(position, ContentLength(content) - Len(bp)))

\* content.slice(from, to).trim(), as the range of content it keeps
RECURSIVE TrimStart(_, _, _)
TrimStart(content, from, to) ==
    IF from >= to THEN to
    ELSE IF ~IsWhitespace(CharAt(content, from)) THEN from
    ELSE LET i == RunAt(content, from)
         IN IF content[i].ch = "blank"
            THEN TrimStart(content, Min(to, RunStart(content, i) + content[i].n), to)
            ELSE TrimStart(content, from + 1, to)

RECURSIVE TrimEnd(_, _, _)
TrimEnd(content, from, to) ==
    IF to <= from THEN from
    ELSE IF ~IsWhitespace(CharAt(content, to - 1)) THEN to
    ELSE LET i == RunAt(content, to - 1)
         IN IF content[i].ch = "blank"
            THEN TrimEnd(content, from, IF RunStart(content, i) > from
                                        THEN RunStart(content, i) ELSE from)
            ELSE TrimEnd(content, from, to - 1)

Trimmed(content, from, to) ==
    LET f == TrimStart(content, from, to)
    IN [from |-> f, to |-> TrimEnd(content, f, to)]

\* the end of the window that starts at start: the naive end, or the end of
\* the first break string whose last occurrence lies more than chunkSize / 2
\* after start
RECURSIVE SnapEnd(_, _, _, _, _)
SnapEnd(content, start, end, chunkSize, b) ==
    IF b > Len(breakPoints) THEN end
    ELSE LET lastBreak == lastIndexOf(content, breakPoints[b], end)
         IN IF 2 * lastBreak > 2 * start + chunkSize
            THEN lastBreak + Len(breakPoints[b])
            ELSE SnapEnd(content, start, end, chunkSize, b + 1)

\* the windows of the while loop: [start, naive, end, text, emitted], text
\* being the range of the trimmed chunk text
RECURSIVE Windows(_, _, _, _)
Windows(content, start, chunkSize, overlap) ==
    LET length == ContentLength(content)
        naive == Min(start + chunkSize, length)
        end == IF naive < length
               THEN SnapEnd(content, start, naive, chunkSize, 1)
               ELSE naive
        text == Trimmed(content, start, end)
        window == [start |-> start, naive |-> naive, end |-> end, text |-> text,
                   emitted |-> text.to - text.from > MIN_CHUNK_TEXT]
    IN IF start >= length THEN <<>>
       ELSE IF end - overlap >= length - overlap THEN <<window>>
       ELSE <<window>> \o Windows(content, end - overlap, chunkSize, overlap)

\* chunkContent(page, chunkSize, overlap): the windows and the chunks, a
\* chunk being its number and the range of the content its text is
chunkContent(content, chunkSize, overlap) ==
    IF ContentLength(content) <= chunkSize
    THEN [windows |-> <<>>,
          chunks |-> <<[index |-> 0, from |-> 0, to |-> ContentLength(content)]>>]
    ELSE LET windows == Windows(content, 0, chunkSize, overlap)
             kept == SelectSeq(windows, LAMBDA w : w.emitted)
         IN [windows |-> windows,
             chunks |-> [i \in 1..Len(kept) |->
                           [index |-> i - 1, from |-> kept[i].text.from,
                            to |-> kept[i].text.to]]]

InitChunker ==
    /\ fnArgs \in [content : PageContents]
    /\ fnResult = <<>>
    /\ fnPc = "call"

\* const chunks = await chunkContent(page)
CallChunkContent ==
    /\ fnPc = "call"
    /\ fnResult' = chunkContent(fnArgs.content, DEFAULT_CHUNK_SIZE, DEFAULT_OVERLAP)
    /\ fnPc' = "chunked"
    /\ UNCHANGED <<fnArgs, chatVars, rerankVars, indexVars, webhookVars>>

ChunkerNext == CallChunkContent

-----------------------------------------------------------------------------
(* Specifications *)

Init == InitChat /\ RerankIdle /\ IndexIdle /\ WebhookIdle /\ CallIdle
Next == ChatNext
Spec == Init /\ [][Next]_vars

RerankInit == ChatIdle /\ InitRerank /\ IndexIdle /\ WebhookIdle /\ CallIdle
SpecRerank == RerankInit /\ [][RerankNext]_vars

IndexInit == ChatIdle /\ RerankIdle /\ InitIndex /\ WebhookIdle /\ CallIdle
SpecIndex == IndexInit /\ [][IndexNext]_vars

WebhookInit == ChatIdle /\ RerankIdle /\ IndexIdle /\ InitWebhook /\ CallIdle
SpecWebhook == WebhookInit /\ [][WebhookNext]_vars

FusionInit == ChatIdle /\ RerankIdle /\ IndexIdle /\ WebhookIdle /\ InitFusion
SpecFusion == FusionInit /\ [][FusionNext]_vars

BM25Init == ChatIdle /\ RerankIdle /\ IndexIdle /\ WebhookIdle /\ InitBM25
SpecBM25 == BM25Init /\ [][BM25Next]_vars

ClassifierInit == ChatIdle /\ RerankIdle /\ IndexIdle /\ WebhookIdle /\ InitClassifier
SpecClassifier == ClassifierInit /\ [][ClassifierNext]_vars

TriggerInit == ChatIdle /\ RerankIdle /\ IndexIdle /\ DeliveryIdle /\ InitTrigger /\ CallIdle
SpecTrigger == TriggerInit /\ [][TriggerNext]_vars

\* `await indexDocs()` settles: the run is a bounded loop over the pages and
\* every await in it is a network call that resolves or rejects
SpecTriggerFair ==
    /\ SpecTrigger
    /\ \A t \in Triggers : WF_vars(RunSettles(t))

ChunkerInit == ChatIdle /\ RerankIdle /\ IndexIdle /\ WebhookIdle /\ InitChunker
SpecChunker == ChunkerInit /\ [][ChunkerNext]_vars


-----------------------------------------------------------------------------
(* Claims *)

InCalls(name) == name \in Range(calls)

\* the pipeline stage a handler position belongs to:
\* 1 Classify, 2 Retrieve, 3 Fuse, 4 Rerank, 5 ConfidenceGate, 6 Done
StageOf(p) ==
    CASE p = "classify" -> 1
      [] p \in {"loadTermIndex", "semanticSearch", "keywordSearch", "legacyRetrieve"} -> 2
      [] p = "fuse" -> 3
      [] p = "rerank" -> 4
      [] p = "confidenceGate" -> 5
      [] p \in {"generate", "done"} -> 6
      [] OTHER -> 0

RetrievalCalls(c) == Len(SelectSeq(c, LAMBDA x : x \in {"retrieve", "bm25.search"}))

\* C1: in the hybrid pipeline a request moves through Classify, Retrieve,
\* Fuse, Rerank, ConfidenceGate, Done in that order and never backward; once
\* fusion has started no semantic or keyword retrieval call is issued, and
\* once reranking has started nothing is retrieved or fused.
C1_StagesNeverGoBack ==
    [][enableHybrid =>
         /\ StageOf(pc') >= StageOf(pc)
         /\ (StageOf(pc) >= 3 => RetrievalCalls(calls') = RetrievalCalls(calls))
         /\ (StageOf(pc) >= 4 => fusedResults' = fusedResults)]_vars

\* the external rerank call failed: transport error, non-success status, or
\* a body that cannot be used (unparseable, or naming a document that does
\* not exist)
RerankCallFailed ==
    \/ rrOutcome.kind \in {"network", "status", "body"}
    \/ /\ rrOutcome.kind = "ok"
       /\ \E p \in 1..Len(rrOutcome.results) : rrOutcome.results[p].index >= Len(rrDocs)

\* C2: for a non-empty document list and topN >= 1, when the external rerank
\* call fails Reranker.rerank returns exactly the first min(topN, |documents|)
\* documents in input order, the i-th (0-based) with originalRank i and
\* relevanceScore 1 - i/|documents|, so the scores strictly decrease.
C2_RerankFallback ==
    (rrPc = "returned" /\ Len(rrDocs) > 0 /\ rrTopN >= 1 /\ RerankCallFailed) =>
        /\ Len(rrResult) = Min(rrTopN, Len(rrDocs))
        /\ \A i \in 1..Len(rrResult) :
              /\ rrResult[i].id = rrDocs[i].id
              /\ rrResult[i].originalRank = i - 1
              /\ RatEq(rrResult[i].relevanceScore,
                       Rat(Len(rrDocs) - (i - 1), Len(rrDocs)))
        /\ \A i \in 1..(Len(rrResult) - 1) :
              RatLess(rrResult[i + 1].relevanceScore, rrResult[i].relevanceScore)

\* rerank(query, [d1, d2, d3], 2) with a backend that answers with an error
\* status has returned [d1, d2]
C2_Witness ==
    /\ rrPc = "returned"
    /\ rrOutcome.kind = "status"
    /\ Len(rrDocs) = 3
    /\ rrTopN = 2
    /\ Len(rrResult) = 2
    /\ rrResult[1].id = rrDocs[1].id
    /\ rrResult[2].id = rrDocs[2].id

\* C3: when term-index loading, semantic retrieval, keyword search or fusion
\* throws, the request ends with status 500 and the answer-generation call is
\* never made; when only the reranker's external call fails the request goes
\* on to the confidence gate with the fallback ranking (the candidates in
\* their fused order) and reaches answer generation.
C3_FailureBeforeGateIsFatal ==
    /\ thrown \in {"loadTermIndex", "retrieve", "bm25.search", "fusion"} =>
          /\ pc = "done"
          /\ response.status = 500
          /\ ~InCalls("chatCompletion")
    /\ rerankMode = "fallback" =>
          /\ pc \in {"confidenceGate", "generate", "done"}
          /\ thrown \in {"none", "chatCompletion"}
          /\ Ids(finalResults) =
                SubSeq(Ids(fusedResults), 1, Min(RERANK_TOP_N, Len(fusedResults)))
          /\ (pc = "done" => InCalls("chatCompletion"))

\* fusion threw after both retrievals had returned results
C3_Witness ==
    /\ thrown = "fusion"
    /\ pc = "done"
    /\ response.status = 500
    /\ Len(semanticResults) > 0
    /\ Len(keywordResults) > 0

\* C4: with hybrid search enabled and a term index available, the resolved
\* strategy is the caller's `retrieval` value when it is hybrid, semantic or
\* keyword and the classifier.ts otherwise; the semantic retriever is invoked
\* only for semantic or hybrid, BM25 search only for keyword or hybrid.
C4_RetrieversFollowStrategy ==
    (enableHybrid /\ termIndex = "index" /\ classified.strategy # "none") =>
        /\ classified.strategy =
              IF req.retrieval \in Strategies THEN req.retrieval ELSE classifierStrategy
        /\ InCalls("retrieve") => classified.strategy \in {"semantic", "hybrid"}
        /\ InCalls("bm25.search") => classified.strategy \in {"keyword", "hybrid"}

\* C5: when the resolved strategy is keyword and no term index is available,
\* semantic retrieval is run and its results are the candidates handed to
\* reranking.
C5_KeywordWithoutIndexIsSemantic ==
    (enableHybrid /\ classified.strategy = "keyword" /\ termIndex = "null"
       /\ pc = "rerank") =>
        /\ InCalls("retrieve")
        /\ fusedResults = SemanticOnlyFused(semanticResults)

\* the confidence gate has run for the request
Gated == systemPrompt # "none"

\* C6: a request is low-confidence exactly when it has no final passage or
\* its top final passage scores below 0.3, the general prompt is used exactly
\* then, and a low-confidence request with passages still gets every final
\* passage in its context.
C6_ConfidenceGate ==
    Gated =>
        /\ isLowConfidence <=>
              (Len(finalResults) = 0 \/ RatLess(finalResults[1].score, Rat(3, 10)))
        /\ systemPrompt = (IF isLowConfidence THEN "general" ELSE "system")
        /\ Len(finalResults) > 0 => context = Ids(finalResults)

\* a low-confidence request whose two passages are both in the context
C6_Witness ==
    /\ Gated
    /\ isLowConfidence
    /\ systemPrompt = "general"
    /\ Len(finalResults) = 2
    /\ Len(context) = 2

\* C7: when the request supplies a confidenceThreshold t, the gate compares
\* the top passage score against t instead of 0.3.
C7_ThresholdIsTunable ==
    (Gated /\ req.confidenceThreshold # Null) =>
        (isLowConfidence <=>
            (Len(finalResults) = 0
               \/ RatLess(finalResults[1].score, req.confidenceThreshold[1])))

\* retrieval for the request yielded zero passages
ZeroPassages == Gated /\ Len(finalResults) = 0

\* C8 as stated: a request whose retrieval yields zero passages ends with a
\* successful response that is an explicit "no relevant documentation found"
\* outcome, never an error.
C8_ZeroResultsExplicitOutcome ==
    (pc = "done" /\ ZeroPassages) =>
        /\ response.status = 200
        /\ response.body = "no relevant documentation found"

\* C8 amended: zero passages never fail the request by themselves; it is
\* gated low-confidence, the general prompt is built with an empty context
\* and the answer-generation call is made; the response is the streamed
\* answer (200) exactly when that call succeeds, else 502 or 500.
C8_ZeroResultsGoToGeneralPrompt ==
    ZeroPassages =>
        /\ isLowConfidence
        /\ systemPrompt = "general"
        /\ context = <<>>
        /\ thrown \in {"none", "chatCompletion"}
        /\ pc = "done" =>
              /\ InCalls("chatCompletion")
              /\ response.status \in {200, 502, 500}
              /\ response.status = 200 <=> completion = "ok"
              /\ response.status = 200 => response.body = "stream"

\* a hybrid request with no passage was answered
C8_Witness ==
    /\ pc = "done"
    /\ ZeroPassages
    /\ enableHybrid
    /\ response.status = 200

\* the body is unparseable, or its message is missing, not a string, empty,
\* whitespace-only, or longer than 2000 characters once trimmed
InvalidBody(b) ==
    \/ ~b.json
    \/ b.message.type # "string"
    \/ b.message.trimmed = 0
    \/ b.message.trimmed > 2000

\* no classification, embedding, vector-store, term-index, reranker or
\* chat-completion call was made
NoPipelineCall ==
    \A i \in 1..Len(calls) : calls[i] = "checkRateLimit"

\* C9 as stated: a request with an invalid body is answered with status 400
\* and no pipeline call is made for it.
C9_InvalidBodyIs400 ==
    (pc = "done" /\ InvalidBody(req)) =>
        /\ response.status = 400
        /\ NoPipelineCall

\* C9 amended: a request with an invalid body never gets past body
\* validation and no pipeline call is made for it; it is answered with 400
\* unless it was refused before its body was read: 429 by the rate limiter,
\* or 500 for a rate-limiter failure or a missing OPENAI_API_KEY.
C9_InvalidBodyRejectedBeforeRetrieval ==
    InvalidBody(req) =>
        /\ pc \in {"rateLimit", "validateEnv", "parseBody", "done"}
        /\ NoPipelineCall
        /\ pc = "done" =>
              \/ response.status = 400
              \/ response = [status |-> 429, body |-> "Too many requests"]
              \/ response = [status |-> 500, body |-> "Server configuration error"]
              \/ (response.status = 500 /\ thrown = "checkRateLimit")

\* a message of 2001 characters was refused with 400
C9_Witness ==
    /\ pc = "done"
    /\ req.json
    /\ req.message.type = "string"
    /\ req.message.trimmed = 2001
    /\ response = [status |-> 400, body |-> "Message too long"]
    /\ calls = <<"checkRateLimit">>

\* C10: when a re-index run fails at any step, the vector store and the
\* stored term index are exactly what they were when the run started.
C10_FailedRunLeavesIndexUntouched ==
    (ixPc = "idle" /\ run > 0 /\ lastResult # Null /\ ~lastResult[1].success) =>
        /\ vectorStore = before.store
        /\ storedTermIndex = before.term

\* an index run has ended and its result is a failure
RunFailed == ixPc = "idle" /\ run > 0 /\ lastResult # Null /\ ~lastResult[1].success

\* C11: indexDocs never throws: every run that has ended has returned a
\* result, and a failed run's result has success = false, pagesProcessed = 0,
\* chunksCreated = 0 and a non-empty errors list.
C11_IndexDocsReturnsStructuredFailure ==
    /\ (ixPc = "idle" /\ run > 0) => lastResult # Null
    /\ RunFailed =>
          /\ lastResult[1].pagesProcessed = 0
          /\ lastResult[1].chunksCreated = 0
          /\ Len(lastResult[1].errors) > 0

\* a run that had fetched pages and made chunks failed while upserting
C11_Witness ==
    /\ RunFailed
    /\ lastResult[1].errors = <<"upsert">>
    /\ runPages > 0
    /\ runChunks > 0

\* replaceAll of the current run has been called and has not returned
ReplaceAllRunning == ixPc \in {"reset", "upsert"}

\* the complete chunk set of a run that created n chunks
CompleteChunkSet(r, n) ==
    { [batch |-> b, run |-> r, size |-> BatchSize(n, b)] : b \in 1..NumBatches(n) }

\* C12: a search or count that runs while replaceAll is running observes
\* either the complete previous chunk set or the complete new chunk set,
\* never an empty or partially written index.
C12_ReplaceAllAtomicForReaders ==
    [][ (ReplaceAllRunning /\ qRead' # qRead) =>
          \/ /\ qRead'.op = "search"
             /\ qRead'.store \in {before.store, CompleteChunkSet(run, runChunks)}
          \/ /\ qRead'.op = "count"
             /\ qRead'.count \in {VectorCount(before.store), runChunks} ]_vars

\* the vector store of the last modelled query and the term index it loaded:
\* every stored chunk belongs to the run that built the term index
SnapshotConsistent(store, term) ==
    \A e \in store : term = Some(e.run)

\* C13: no query reads a vector store holding the chunks of one index run
\* together with a stored term index built by a different run, or with no
\* term index at all.
C13_QuerySeesConsistentSnapshot ==
    (qPc = "done" /\ qRead.op = "search") => SnapshotConsistent(qRead.store, qTerm)

\* the X-Hub-Signature-256 header is "sha256=" followed by the hex
\* HMAC-SHA256 of the raw body under the configured secret
SignatureValid ==
    /\ whSecret # Null
    /\ whReq.signature =
          Some([prefix |-> "sha256=", hex |-> hmacSha256Hex(whSecret[1], whReq.rawBody)])

\* C14: with a secret configured, a webhook delivery causes indexDocs to run
\* only if its signature header is valid: a delivery whose signature is
\* missing or does not match never starts a re-index.
C14_ReindexOnlyWithValidSignature ==
    (whSecret # Null /\ ~SignatureValid) => indexDocsCalls = 0

\* C15: the response of a chat request is the same whether the query-log
\* write succeeds, fails or never completes: once the completion call has
\* returned, status and body are those the completion outcome alone
\* determines, in every state of the log write, and the response is already
\* there while the write is still pending.
C15_LogWriteNeverAffectsResponse ==
    /\ (pc = "done" /\ completion # "none") => response = AnswerResponse(completion)
    /\ logWrite # "none" => (pc = "done" /\ response = [status |-> 200, body |-> "stream"])

\* the log write failed after the answer had been returned
C15_Witness ==
    /\ pc = "done"
    /\ logWrite = "failed"
    /\ response.status = 200

\* the 1-based position of a chunk in a list, Null when it is absent
PositionIn(list, id) ==
    IF id \in Range(Ids(list)) THEN Some(IndexOf(Ids(list), id)) ELSE Null

\* the sum of 1/(k + r) over the lists that contain the chunk
RRFScore(sem, kw, k, id) ==
    LET s == PositionIn(sem, id)
        w == PositionIn(kw, id)
    IN IF s # Null /\ w # Null THEN RatAdd(Rat(1, k + s[1]), Rat(1, k + w[1]))
       ELSE IF s # Null THEN Rat(1, k + s[1])
       ELSE Rat(1, k + w[1])

\* every score of a list multiplied by c
Scaled(list, c) ==
    [i \in 1..Len(list) |-> [id |-> list[i].id, score |-> RatMul(list[i].score, Rat(c, 1))]]

FusedScores(list) == [i \in 1..Len(list) |-> list[i].fusedScore]

\* C16: reciprocalRankFusion gives each returned chunk the sum of 1/(k + r)
\* over the lists containing it, records rank and score per side with null
\* for an absent side, and depends on positions only: multiplying every
\* semantic score by 3 changes neither the fused scores nor the fused order.
C16_RRFIsRankOnly ==
    fnPc = "rrf" =>
        /\ \A i \in 1..Len(fnResult) :
              LET e == fnResult[i]
                  s == PositionIn(fnArgs.sem, e.id)
                  w == PositionIn(fnArgs.kw, e.id)
              IN /\ RatEq(e.fusedScore, RRFScore(fnArgs.sem, fnArgs.kw, fnArgs.k, e.id))
                 /\ e.semanticRank = s
                 /\ e.keywordRank = w
                 /\ e.semanticScore = (IF s = Null THEN Null ELSE Some(fnArgs.sem[s[1]].score))
                 /\ e.keywordScore = (IF w = Null THEN Null ELSE Some(fnArgs.kw[w[1]].score))
        /\ LET scaled == reciprocalRankFusion(Scaled(fnArgs.sem, 3), fnArgs.kw,
                                              fnArgs.chunks, fnArgs.k)
           IN /\ Ids(scaled) = Ids(fnResult)
              /\ FusedScores(scaled) = FusedScores(fnResult)

\* a chunk found by both retrievers at different ranks, next to one found
\* by the semantic retriever only, was fused
C16_Witness ==
    /\ fnPc = "rrf"
    /\ Len(fnResult) = 3
    /\ \E i \in 1..3 : /\ fnResult[i].semanticRank = Some(2)
                       /\ fnResult[i].keywordRank = Some(1)
    /\ \E i \in 1..3 : /\ fnResult[i].semanticRank = Some(1)
                       /\ fnResult[i].keywordRank = Null

\* the order in which the fusion functions first insert the chunks in their
\* map: the semantic list in list order, then the keyword-only chunks
InsertionOrder(sem, kw) ==
    Ids(sem) \o SelectSeq(Ids(kw), LAMBDA id : id \notin Range(Ids(sem)))

\* C17: the list returned by reciprocalRankFusion and by weightedScoreFusion
\* is in non-increasing order of fusedScore, holds each chunk id at most
\* once, and puts chunks with equal fusedScore in their insertion order.
C17_FusedOrderIsStable ==
    fnPc \in {"rrf", "weighted"} =>
        \A i, j \in 1..Len(fnResult) :
            i < j =>
                /\ ~RatLess(fnResult[i].fusedScore, fnResult[j].fusedScore)
                /\ fnResult[i].id # fnResult[j].id
                /\ RatEq(fnResult[i].fusedScore, fnResult[j].fusedScore) =>
                      IndexOf(InsertionOrder(fnArgs.sem, fnArgs.kw), fnResult[i].id)
                        < IndexOf(InsertionOrder(fnArgs.sem, fnArgs.kw), fnResult[j].id)

\* reciprocalRankFusion returned a semantic-only chunk and a keyword-only
\* chunk of the same rank, hence the same fused score, behind a chunk found
\* by both
C17_Witness ==
    /\ fnPc = "rrf"
    /\ Len(fnResult) = 3
    /\ fnResult[1].semanticRank # Null /\ fnResult[1].keywordRank # Null
    /\ RatEq(fnResult[2].fusedScore, fnResult[3].fusedScore)
    /\ fnResult[2].keywordRank = Null
    /\ fnResult[3].semanticRank = Null

\* the min-max normalized score of the i-th member of a list: 1 for a
\* one-element list and for a list whose scores are all equal
MinMaxNormalized(list, i) ==
    IF Len(list) = 1 \/ RatEq(MaxScore(list), MinScore(list)) THEN Rat(1, 1)
    ELSE RatQuot(RatSub(list[i].score, MinScore(list)),
                 RatSub(MaxScore(list), MinScore(list)))

\* semanticWeight * normalized semantic score + keywordWeight * normalized
\* keyword score, an absent side contributing 0
WeightedScore(args, id) ==
    LET s == PositionIn(args.sem, id)
        w == PositionIn(args.kw, id)
        sp == IF s = Null THEN Rat(0, 1)
              ELSE RatMul(args.semanticWeight, MinMaxNormalized(args.sem, s[1]))
        wp == IF w = Null THEN Rat(0, 1)
              ELSE RatMul(args.keywordWeight, MinMaxNormalized(args.kw, w[1]))
    IN RatAdd(sp, wp)

\* two one-element lists with different ids were given to weightedScoreFusion
TwoSingletons ==
    /\ fnPc = "weighted"
    /\ Len(fnArgs.sem) = 1
    /\ Len(fnArgs.kw) = 1
    /\ fnArgs.sem[1].id # fnArgs.kw[1].id

\* C18 as stated, its last part: for two one-element lists with different
\* ids weightedScoreFusion returns both chunks, with fused scores
\* semanticWeight and keywordWeight respectively.
C18_TwoSingletonsBothReturned ==
    TwoSingletons =>
        /\ Len(fnResult) = 2
        /\ \E i \in 1..2 : /\ fnResult[i].id = fnArgs.sem[1].id
                           /\ RatEq(fnResult[i].fusedScore, fnArgs.semanticWeight)
        /\ \E i \in 1..2 : /\ fnResult[i].id = fnArgs.kw[1].id
                           /\ RatEq(fnResult[i].fusedScore, fnArgs.keywordWeight)

\* C18 amended: weightedScoreFusion min-max normalizes each list
\* independently to [0,1] (1 for every member of a one-element or zero-range
\* list) and gives each returned chunk semanticWeight * normalized semantic
\* score + keywordWeight * normalized keyword score; two one-element lists
\* with different ids give both chunks, with fused scores semanticWeight and
\* keywordWeight, when the chunk map has the keyword chunk, and the semantic
\* chunk alone when it has not.
C18_WeightedFusionNormalizes ==
    fnPc = "weighted" =>
        /\ (TwoSingletons /\ fnArgs.kw[1].id \notin fnArgs.chunks) =>
              Ids(fnResult) = <<fnArgs.sem[1].id>>
        /\ \A i \in 1..Len(fnResult) :
              LET e == fnResult[i]
              IN /\ RatEq(e.fusedScore, WeightedScore(fnArgs, e.id))
                 /\ e.semanticScore # Null =>
                       /\ ~RatLess(e.semanticScore[1], Rat(0, 1))
                       /\ ~RatLess(Rat(1, 1), e.semanticScore[1])
                 /\ e.keywordScore # Null =>
                       /\ ~RatLess(e.keywordScore[1], Rat(0, 1))
                       /\ ~RatLess(Rat(1, 1), e.keywordScore[1])
        /\ (TwoSingletons /\ fnArgs.kw[1].id \in fnArgs.chunks) =>
              /\ Len(fnResult) = 2
              /\ \E i \in 1..2 : /\ fnResult[i].id = fnArgs.sem[1].id
                                 /\ RatEq(fnResult[i].fusedScore, fnArgs.semanticWeight)
              /\ \E i \in 1..2 : /\ fnResult[i].id = fnArgs.kw[1].id
                                 /\ RatEq(fnResult[i].fusedScore, fnArgs.keywordWeight)

\* two one-element lists with different ids and scores below 1 were fused
\* with the default weights
C18_Witness ==
    /\ fnPc = "weighted"
    /\ Len(fnArgs.sem) = 1 /\ Len(fnArgs.kw) = 1
    /\ fnArgs.sem[1].id # fnArgs.kw[1].id
    /\ RatLess(fnArgs.sem[1].score, Rat(1, 1))
    /\ fnArgs.semanticWeight = Rat(7, 10)
    /\ Len(fnResult) = 2
    /\ RatEq(fnResult[1].fusedScore, Rat(7, 10))
    /\ RatEq(fnResult[2].fusedScore, Rat(3, 10))

-----------------------------------------------------------------------------
(* C19, C20: the BM25 searcher and the term index *)

Searched == fnPc = "searched"
QueryTokens == Range(tokenize(fnArgs.query))
\* the chunks of the corpus that hold a token of the query
MatchingChunks ==
    { i \in 1..Len(fnArgs.chunks) :
        Range(ChunkTokens(fnArgs.chunks[i])) \cap QueryTokens # {} }
ResultIds == { fnResult.results[i].id : i \in 1..Len(fnResult.results) }

\* C19: search returns the empty list when the query has no token or no
\* token of it occurs in the index; every chunk it returns holds a token of
\* the query and has a strictly positive score; and on an index built from a
\* single chunk that holds a query token, that chunk is returned.
C19_SearchReturnsMatchingChunks ==
    Searched =>
        /\ (QueryTokens = {} \/ QueryTokens \cap DOMAIN fnResult.index.terms = {})
              => fnResult.results = <<>>
        /\ \A i \in 1..Len(fnResult.results) :
              /\ fnResult.results[i].score.n > 0
              /\ \E c \in MatchingChunks :
                    fnArgs.chunks[c].id = fnResult.results[i].id
        /\ (Len(fnArgs.chunks) = 1 /\ MatchingChunks # {})
              => fnArgs.chunks[1].id \in ResultIds

\* a single-chunk index searched for a term of the chunk
C19_Witness ==
    /\ Searched
    /\ Len(fnArgs.chunks) = 1
    /\ MatchingChunks # {}
    /\ Len(fnResult.results) = 1

SumOfDocLengths(index) ==
    LET RECURSIVE SumOver(_)
        SumOver(S) == IF S = {} THEN 0
                      ELSE LET id == CHOOSE x \in S : TRUE
                           IN index.docLengths[id] + SumOver(S \ {id})
    IN SumOver(DOMAIN index.docLengths)

PostingIds(index) ==
    UNION { { index.terms[t][k].id : k \in 1..Len(index.terms[t]) }
            : t \in DOMAIN index.terms }

\* C20: for every corpus given to buildTermIndex, avgDocLength x totalDocs is
\* the sum of the values of docLengths, and every chunk id of a posting list
\* is a key of docLengths.
C20_TermIndexIsConsistent ==
    fnPc = "built" =>
        /\ RatEq(RatMul(fnResult.index.avgDocLength, Rat(fnResult.index.totalDocs, 1)),
                 Rat(SumOfDocLengths(fnResult.index), 1))
        /\ PostingIds(fnResult.index) \subseteq DOMAIN fnResult.index.docLengths

-----------------------------------------------------------------------------
(* C21: the term index survives serialization *)

\* C21: deserializeTermIndex(serializeTermIndex(idx)) equals idx, map for map
\* and scalar for scalar, whether it is given the text or the parsed object.
C21_TermIndexRoundTrips ==
    fnPc = "deserialized" => fnResult.restored = fnResult.index

\* an index with postings restored from the already-parsed object
C21_Witness ==
    /\ fnPc = "deserialized"
    /\ fnResult.data.t = "object"
    /\ DOMAIN fnResult.index.terms # {}
    /\ \E t \in DOMAIN fnResult.restored.terms :
          Len(fnResult.restored.terms[t]) = 2

-----------------------------------------------------------------------------
(* C22, C23: the query classifier *)

Classified == fnPc = "classified"

\* the intent the first matching family gives, in the order troubleshooting,
\* comparison, lookup, conceptual
FirstFamily(query) ==
    CASE MatchesTroubleshooting(query) -> "troubleshooting"
      [] ~MatchesTroubleshooting(query) /\ MatchesComparison(query) -> "comparison"
      [] ~MatchesTroubleshooting(query) /\ ~MatchesComparison(query)
            /\ MatchesLookup(query) -> "lookup"
      [] ~MatchesTroubleshooting(query) /\ ~MatchesComparison(query)
            /\ ~MatchesLookup(query) /\ MatchesConceptual(query) -> "conceptual"
      [] OTHER -> "none"

\* C22: the intent is that of the first matching family in the order
\* troubleshooting, comparison, lookup, conceptual; with no match it is lookup
\* for at most 3 words and conceptual otherwise; the strategy is keyword for a
\* lookup with a code reference, hybrid for any other lookup and for
\* troubleshooting, semantic for conceptual and comparison; never undefined.
C22_IntentAndStrategyRule ==
    Classified =>
        /\ FirstFamily(fnArgs.query) # "none"
              => fnResult.intent = FirstFamily(fnArgs.query)
        /\ FirstFamily(fnArgs.query) = "none"
              => fnResult.intent = (IF Len(fnArgs.query) <= 3 THEN "lookup"
                                    ELSE "conceptual")
        /\ fnResult.strategy \in Strategies
        /\ fnResult.strategy = "keyword"
              <=> (fnResult.intent = "lookup" /\ hasCodeRefs(fnArgs.query))
        /\ fnResult.strategy = "hybrid"
              <=> \/ fnResult.intent = "lookup" /\ ~hasCodeRefs(fnArgs.query)
                  \/ fnResult.intent = "troubleshooting"
        /\ fnResult.strategy = "semantic"
              <=> fnResult.intent \in {"conceptual", "comparison"}

\* a query that matches the troubleshooting and the lookup family
C22_Witness ==
    /\ Classified
    /\ MatchesTroubleshooting(fnArgs.query)
    /\ hasCodeRefs(fnArgs.query)
    /\ fnResult.intent = "troubleshooting"
    /\ fnResult.strategy = "hybrid"

\* the primary synonyms of the abbreviations that occur in the query, each
\* once, in the order of SYNONYMS
PrimarySynonyms(query) ==
    SelectSeq([s \in 1..Len(SYNONYMS) |-> SYNONYMS[s].primary],
              LAMBDA p : \E s \in 1..Len(SYNONYMS) :
                            /\ SYNONYMS[s].primary = p
                            /\ \E i \in 1..Len(query) :
                                  LowerCase(query[i]) = SYNONYMS[s].abbrev)

\* C23: original is the input unchanged; expanded is the input followed by
\* the primary synonym of each recognised abbreviation that occurs in it as a
\* whole word, case-insensitively, each at most once; with no abbreviation
\* expanded is the (trimmed) input.
C23_ExpandedAppendsPrimarySynonyms ==
    Classified =>
        /\ fnResult.original = fnArgs.query
        /\ fnResult.expanded = fnArgs.query \o PrimarySynonyms(fnArgs.query)

\* an abbreviation that occurs twice, in two spellings, next to a word that
\* only contains one
C23_Witness ==
    /\ Classified
    /\ \E i, j \in 1..Len(fnArgs.query) :
          fnArgs.query[i] = "API" /\ fnArgs.query[j] = "oauth"
    /\ fnResult.expanded = fnArgs.query \o <<"endpoint">>

-----------------------------------------------------------------------------
(* C24, C28: the chunker *)

Chunked == fnPc = "chunked"
PageLength == ContentLength(fnArgs.content)
InChunk(p) ==
    \E i \in 1..Len(fnResult.chunks) :
        fnResult.chunks[i].from <= p /\ p < fnResult.chunks[i].to
\* every position of from..(to - 1) lies in an emitted chunk: the first one
\* does, and so does each position of the range where a chunk ends
Covered(from, to) ==
    /\ InChunk(from)
    /\ \A i \in 1..Len(fnResult.chunks) :
          (from <= fnResult.chunks[i].to /\ fnResult.chunks[i].to < to)
             => InChunk(fnResult.chunks[i].to)
\* the runs of the page that are no whitespace
InkedRuns == { i \in 1..Len(fnArgs.content) : fnArgs.content[i].ch \in {"a", "."} }
RunCovered(i) ==
    Covered(RunStart(fnArgs.content, i),
            RunStart(fnArgs.content, i) + fnArgs.content[i].n)

\* C24: for a page longer than chunkSize, chunked with chunkSize 1000 and
\* overlap 200, every character that is no whitespace lies in an emitted
\* chunk, each window starts at or before the end of the one before it, and a
\* page of 2500 characters yields at least 3 chunks.
C24_NoCharacterDropped ==
    (Chunked /\ PageLength > DEFAULT_CHUNK_SIZE) =>
        /\ \A i \in InkedRuns : RunCovered(i)
        /\ \A i \in 1..(Len(fnResult.windows) - 1) :
              fnResult.windows[i + 1].start <= fnResult.windows[i].end
        /\ PageLength = 2500 => Len(fnResult.chunks) >= 3

\* C28: snapping only moves a window's end backward: every window ends at or
\* before start + chunkSize, every emitted chunk has at most chunkSize
\* characters, and a boundary is accepted only when it lies more than half of
\* chunkSize after the window start.
C28_SnappingOnlyMovesBackward ==
    Chunked =>
        /\ \A i \in 1..Len(fnResult.windows) :
              LET w == fnResult.windows[i]
              IN /\ w.end <= w.naive
                 /\ w.end # w.naive => 2 * w.end > 2 * w.start + DEFAULT_CHUNK_SIZE
        /\ \A i \in 1..Len(fnResult.chunks) :
              fnResult.chunks[i].to - fnResult.chunks[i].from <= DEFAULT_CHUNK_SIZE

-----------------------------------------------------------------------------
(* C26: chunk data for fusion *)

\* the request has just fused its results with reciprocalRankFusion
FusedWithRRF ==
    /\ pc = "rerank"
    /\ FuseBranch(classified.strategy, semanticResults, keywordResults)
          \in {"rrf", "keywordFallback"}

\* C26: whenever the pipeline fuses with reciprocalRankFusion, every chunk id
\* returned by the semantic retriever or by BM25 keyword search appears in
\* the fused result list.
C26_NoRetrievedChunkLost ==
    FusedWithRRF =>
        (Range(Ids(semanticResults)) \cup Range(Ids(semanticFallback))
            \cup Range(Ids(keywordResults))) \subseteq Range(Ids(fusedResults))

-----------------------------------------------------------------------------
(* C25: the keyword strategy end to end *)

\* a gated request under the keyword strategy with a term index loaded
KeywordRequestGated ==
    /\ Gated
    /\ enableHybrid
    /\ classified.strategy = "keyword"
    /\ termIndex = "index"

\* C25: with the keyword strategy and a term index in which exactly one chunk
\* matches the keywords (BM25 search returns that chunk alone), the chunk is
\* first in the final passage list; when no chunk matches, the final list is
\* empty or its top score is below the threshold, and the request is gated as
\* low-confidence.
C25_KeywordMatchRankedFirst ==
    KeywordRequestGated =>
        /\ Len(keywordResults) = 1
              => /\ Len(finalResults) >= 1
                 /\ finalResults[1].id = keywordResults[1].id
        /\ Len(keywordResults) = 0
              => /\ \/ Len(finalResults) = 0
                    \/ RatLess(finalResults[1].score, LOW_CONFIDENCE_THRESHOLD)
                 /\ isLowConfidence

-----------------------------------------------------------------------------
(* C27: phrase search *)

PhraseTokens == tokenize(fnArgs.query)
DistinctCorpusIds ==
    \A i, j \in 1..Len(fnArgs.chunks) :
        i # j => fnArgs.chunks[i].id # fnArgs.chunks[j].id
\* the phrase has at least 2 tokens and some chunk holds them all
PhraseScored ==
    /\ fnPc = "phrase"
    /\ DistinctCorpusIds
    /\ Len(PhraseTokens) >= 2
    /\ findDocsWithAllTokens(fnResult.index, PhraseTokens) # <<>>

\* the positions of each phrase token in the chunk, as sets
PositionsIn(docId, i) ==
    Range(PostingOf(fnResult.index, PhraseTokens[i], docId)[1].positions)
\* the in-order occurrences of the phrase in the chunk: one position per
\* token, strictly increasing
InOrderOccurrences(docId) ==
    { o \in [1..Len(PhraseTokens) -> 0..(fnResult.index.docLengths[docId] - 1)] :
        /\ \A i \in 1..Len(PhraseTokens) : o[i] \in PositionsIn(docId, i)
        /\ \A i \in 1..(Len(PhraseTokens) - 1) : o[i] < o[i + 1] }
SmallestSpan(docId) ==
    LET spans == { o[Len(PhraseTokens)] - o[1] : o \in InOrderOccurrences(docId) }
    IN CHOOSE s \in spans : \A u \in spans : s <= u

\* the plain BM25 score of the chunk itself for the tokens
OwnScore(index, tokens, docId) ==
    LET all == search(index, tokens, Cardinality(DOMAIN index.docLengths))
        own == SelectSeq(all, LAMBDA r : r.id = docId)
    IN IF Len(own) = 0 THEN Rat(0, 1) ELSE own[1].score

\* the score the claim gives a candidate chunk
ExpectedPhraseScore(docId) ==
    LET s == OwnScore(fnResult.index, PhraseTokens, docId)
        n == Len(PhraseTokens)
    IN IF InOrderOccurrences(docId) = {}
       THEN RatMul(s, Rat(1, 2))
       ELSE RatMul(s, RatPlus(Rat(1, 1), Reduced(Rat(n - 1, SmallestSpan(docId) + 1))))

\* C27: for a phrase of n >= 2 tokens, a candidate chunk is scored from its
\* own plain BM25 score s: s x (1 + (n - 1)/(minSpan + 1)) when the tokens
\* occur in order in the chunk, s/2 when they do not.
C27_PhraseScoreFromOwnScore ==
    PhraseScored =>
        \A i \in 1..Len(fnResult.results) :
            Reduced(fnResult.results[i].score)
               = Reduced(ExpectedPhraseScore(fnResult.results[i].id))


\* the triggers whose indexDocs run is in progress
RunsInProgress == { t \in Triggers : trPc[t] = "running" }

\* trigger t passed the concurrency guard in this step
HandledAtGuard(t) == trPc[t] = "guard" /\ trPc'[t] # "guard"

\* C29: within one server process at most one indexDocs run started by the
\* webhook or manual re-index endpoints is in progress at any time, and in
\* every interleaving a trigger handled while isIndexing is true receives
\* the "skipped" response and starts no run.
C29_AtMostOneRunInProgress ==
    /\ [](Cardinality(RunsInProgress) <= 1)
    /\ [][\A t \in Triggers :
            (HandledAtGuard(t) /\ isIndexing)
                => /\ trResponse'[t] = [code |-> 200, status |-> "skipped"]
                   /\ trPc'[t] = "done"
                   /\ RunsInProgress' = RunsInProgress]_vars

\* one run is in progress while a second trigger has been skipped and a
\* third waits at the guard
C29_Witness ==
    \E t, u, v \in Triggers :
        /\ trPc[t] = "running"
        /\ trResponse[u].status = "skipped"
        /\ trPc[v] = "guard"
        /\ trServer = "dev"
        /\ trReq[t].endpoint # trReq[u].endpoint

\* [kind, result] of the last run that returned a result, Null if none did
LastReturned(runs) ==
    LET idx == { i \in 1..Len(runs) : runs[i].outcome.kind = "returned" }
    IN  IF idx = {} THEN Null
        ELSE Some(runs[CHOOSE i \in idx : \A j \in idx : j <= i].outcome.result)

\* C30: every re-index run started by a trigger eventually clears the
\* isIndexing flag, whether indexDocs returns success, returns a failure
\* result or throws; the flag is set only while a run is in progress, so a
\* trigger is skipped only during a run, and lastResult holds the outcome of
\* the most recently completed run that returned a result.
C30_FlagClearedAfterEveryRun ==
    /\ \A t \in Triggers : (trPc[t] = "running") ~> (trPc[t] = "done" /\ ~isIndexing)
    /\ [](isIndexing <=> RunsInProgress # {})
    /\ [][\A t \in Triggers :
            (HandledAtGuard(t) /\ trResponse'[t].status = "skipped")
                => RunsInProgress # {}]_vars
    /\ [](statusLastResult = LastReturned(completed))

\* a run threw after an earlier one returned a result; the flag is clear, the
\* earlier result is still the last one, and a later trigger started a run
\* that has returned too
C30_Witness ==
    /\ Len(completed) = 3
    /\ completed[1].outcome.kind = "returned"
    /\ ~completed[1].outcome.result.success
    /\ completed[2].outcome.kind = "threw"
    /\ completed[3].outcome.kind = "returned"
    /\ completed[3].outcome.result.success
    /\ ~isIndexing
    /\ statusLastResult = Some(completed[3].outcome.result)

=============================================================================
